---- MODULE Spec2Model ----
(***************************************************************************)
(* A model of the template engine of flun_html_template                    *)
(* (src/unnamed/part_000): block scanner, template compositor, include     *)
(* resolver, loop and conditional processors.                              *)
(*                                                                         *)
(* Text is a sequence of atoms.  An atom is one character ("[", "!", "]",  *)
(* ...) or an indivisible run of characters that no pattern of the code    *)
(* can split (a word such as "constructor", a whole {{...}} tag).          *)
(* Indices are 0-based as in the source; Slice(s, a, b) is s.slice(a, b).  *)
(***************************************************************************)
EXTENDS Integers, Sequences, FiniteSets, TLC

VARIABLES
    \* _findBlockPositions
    content, blocks, scanPc,
    \* _renderTemplateContent
    baseContent, templateContent, finalHtml, composePc,
    \* processIncludes: the files on disk, the pending calls (innermost last),
    \* the paths handed to readFile, the dependency registry and its flag
    fs, frames, incResult, incPc, reads, includedFiles, isCompilationMode,
    \* renderTemplate: the files on disk, the template asked for, its text, the
    \* resolved base path, the base paths handed to access/readFile, the result
    diskFiles, templateFile, pageContent, basePath, baseTouched, rendered, renderPc,
    \* a phase of processVariables: the template, the request's variables, the output
    tplContent, tplVariables, tplOutput, tplPc,
    \* _evaluateExpression: the expression, the variables, what the call gave
    evalExpr, evalVariables, evalResult, evalPc,
    \* _processIteratively: result and previousResult, the passes finished, the
    \* phases of the running pass already applied, the warning
    passResult, passPrevious, passCount, phase, warned,
    \* _validateTemplateStructure: the text, the errors returned
    valContent, valErrors, valPc,
    \* the page middleware and compile: the template directory, the template list, the
    \* template being rendered and its index, the text after composition and
    \* inclusion, the final document, the stages applied to it, the files
    \* written to dist
    siteDisk, cachedPages, siteTemplate, pageIndex, siteRendered, siteDocument, stagesRun, dist, sitePc,
    \* the feature registry, the position of a running loadUserFeatures, the
    \* requestVariables object a caller holds, the contexts the processVariables
    \* calls built from it, the template rendered and the documents returned
    userFeatures, loadPc, callerVariables, contexts, featTemplate, featOutputs,
    \* runCopyFiles: the destination directory now and when the call was made, the
    \* mode, the copyFileOrDir calls still pending, the position of the call
    destTree, destBefore, copyMode, copyTasks, copyPc,
    \* hot reload: the paths the process wrote lately, the file events handled,
    \* the events emitted to the clients, whether a handler threw
    writtenFilesToIgnore, handled, emitted, handlerThrew,
    \* a page request: its path, the response it got, the file the middleware is of
    reqPath, response, middleware,
    \* a reload of the registry: the registry when it began, what the customize
    \* modules export by now, what each processVariables call read, the reloads done
    registryBefore, customizeModules, registryReads, reloads

scanVars == <<content, blocks, scanPc>>
composeVars == <<baseContent, templateContent, finalHtml, composePc>>
includeVars == <<fs, frames, incResult, incPc, reads, includedFiles, isCompilationMode>>
renderVars == <<diskFiles, templateFile, pageContent, basePath, baseTouched, rendered, renderPc>>
passVars == <<passResult, passPrevious, passCount, phase, warned>>
templateVars == <<tplContent, tplVariables, tplOutput, tplPc, passVars>>
evalVars == <<evalExpr, evalVariables, evalResult, evalPc>>
validateVars == <<valContent, valErrors, valPc>>
siteVars == <<siteDisk, cachedPages, siteTemplate, pageIndex, siteRendered, siteDocument, stagesRun, dist, sitePc>>
featureVars == <<userFeatures, loadPc, callerVariables, contexts, featTemplate, featOutputs>>
copyVars == <<destTree, destBefore, copyMode, copyTasks, copyPc>>
hotVars == <<writtenFilesToIgnore, handled, emitted, handlerThrew>>
reqVars == <<reqPath, response, middleware>>
reloadVars == <<registryBefore, customizeModules, registryReads, reloads>>
vars == <<scanVars, composeVars, includeVars, renderVars, templateVars, evalVars, validateVars, siteVars, featureVars, copyVars, hotVars, reqVars, reloadVars>>

\* what each component leaves alone
exceptScan == <<composeVars, includeVars, renderVars, templateVars, evalVars, validateVars, siteVars, featureVars, copyVars, hotVars, reqVars, reloadVars>>
exceptCompose == <<scanVars, includeVars, renderVars, templateVars, evalVars, validateVars, siteVars, featureVars, copyVars, hotVars, reqVars, reloadVars>>
exceptInclude == <<scanVars, composeVars, renderVars, templateVars, evalVars, validateVars, siteVars, featureVars, copyVars, hotVars, reqVars, reloadVars>>
exceptRender == <<scanVars, composeVars, includeVars, templateVars, evalVars, validateVars, siteVars, featureVars, copyVars, hotVars, reqVars, reloadVars>>
exceptTemplate == <<scanVars, composeVars, includeVars, renderVars, evalVars, validateVars, siteVars, featureVars, copyVars, hotVars, reqVars, reloadVars>>
exceptEval == <<scanVars, composeVars, includeVars, renderVars, templateVars, validateVars, siteVars, featureVars, copyVars, hotVars, reqVars, reloadVars>>
exceptValidate == <<scanVars, composeVars, includeVars, renderVars, templateVars, evalVars, siteVars, featureVars, copyVars, hotVars, reqVars, reloadVars>>
exceptSite == <<scanVars, composeVars, includeVars, renderVars, templateVars, evalVars, validateVars, featureVars, copyVars, hotVars, reqVars, reloadVars>>
exceptSiteAndReq == <<scanVars, composeVars, includeVars, renderVars, templateVars, evalVars, validateVars, featureVars, copyVars, hotVars, reloadVars>>
exceptSiteAndHot == <<scanVars, composeVars, includeVars, renderVars, templateVars, evalVars, validateVars, featureVars, copyVars, reqVars, reloadVars>>
exceptSiteAndRegistry == <<scanVars, composeVars, fs, frames, incResult, incPc, reads, renderVars, templateVars, evalVars, validateVars, featureVars, copyVars, hotVars, reqVars, reloadVars>>
exceptFeatures == <<scanVars, composeVars, includeVars, renderVars, templateVars, evalVars, validateVars, siteVars, copyVars, hotVars, reqVars, reloadVars>>
exceptFeaturesAndReload == <<scanVars, composeVars, includeVars, renderVars, templateVars, evalVars, validateVars, siteVars, copyVars, hotVars, reqVars>>
exceptCopy == <<scanVars, composeVars, includeVars, renderVars, templateVars, evalVars, validateVars, siteVars, featureVars, hotVars, reqVars, reloadVars>>
exceptHot == <<scanVars, composeVars, includeVars, renderVars, templateVars, evalVars, validateVars, siteVars, featureVars, copyVars, reqVars, reloadVars>>
exceptReq == <<scanVars, composeVars, includeVars, renderVars, templateVars, evalVars, validateVars, siteVars, featureVars, copyVars, hotVars, reloadVars>>
exceptReload == <<scanVars, composeVars, includeVars, renderVars, templateVars, evalVars, validateVars, siteVars, featureVars, copyVars, hotVars, reqVars>>

(***************************************************************************)
(* String primitives                                                       *)
(***************************************************************************)
Min(a, b) == IF a < b THEN a ELSE b

Max(a, b) == IF a > b THEN a ELSE b

\* s.slice(a, b) for 0 <= a, b
Slice(s, a, b) == IF b <= a THEN <<>> ELSE SubSeq(s, a + 1, Min(b, Len(s)))

\* s.startsWith(pat, i)
StartsWithAt(s, pat, i) ==
    /\ i >= 0
    /\ i + Len(pat) <= Len(s)
    /\ \A k \in 1..Len(pat) : s[i + k] = pat[k]

\* s.indexOf(pat, from): a negative from counts as 0, the result is -1 when absent
IndexOf(s, pat, from) ==
    LET f == Max(from, 0)
        hits == {i \in f..(Len(s) - Len(pat)) : StartsWithAt(s, pat, i)}
    IN  IF hits = {} THEN -1 ELSE CHOOSE i \in hits : \A j \in hits : i <= j

RECURSIVE TrimStart(_)
TrimStart(s) == IF s # <<>> /\ Head(s) = " " THEN TrimStart(Tail(s)) ELSE s

RECURSIVE TrimEnd(_)
TrimEnd(s) ==
    IF s # <<>> /\ s[Len(s)] = " " THEN TrimEnd(SubSeq(s, 1, Len(s) - 1)) ELSE s

\* s.trim()
Trim(s) == TrimEnd(TrimStart(s))

RECURSIVE Concat(_)
Concat(ss) == IF ss = <<>> THEN <<>> ELSE Head(ss) \o Concat(Tail(ss))

\* every sequence over S of length 0..n
RECURSIVE SeqsUpTo(_, _)
SeqsUpTo(S, n) ==
    IF n = 0 THEN {<<>>}
    ELSE LET shorter == SeqsUpTo(S, n - 1)
         IN  shorter \cup {Append(s, x) : s \in {t \in shorter : Len(t) = n - 1}, x \in S}

(***************************************************************************)
(* 2. Block scanner                                                        *)
(***************************************************************************)
\* Property names every object literal inherits from Object.prototype: for
\* these `blocks[openName]` of the fresh literal `{}` is already truthy.
ObjectPrototypeNames == {<<"constructor">>, <<"toString">>, <<"__proto__">>}

NoBlocks == [n \in {} |-> <<>>]

\* blocks[openName].push(entry), after `if (!blocks[openName]) blocks[openName] = []`
PushBlock(bl, name, entry) ==
    IF name \in DOMAIN bl
    THEN [bl EXCEPT ![name] = Append(@, entry)]
    ELSE [n \in DOMAIN bl \cup {name} |-> IF n = name THEN <<entry>> ELSE bl[n]]

\* The inherited (truthy) value has no push method: TypeError.
PushThrows(bl, name) == name \notin DOMAIN bl /\ name \in ObjectPrototypeNames

CloseStartIndex(c, closeTag, openEndIndex) == IndexOf(c, closeTag, openEndIndex + 1)

RECURSIVE ScanFrom(_, _, _)
ScanFrom(c, index, bl) ==
    IF ~(index < Len(c)) THEN [threw |-> FALSE, blocks |-> bl]
    ELSE
    LET startIndex == IndexOf(c, <<"[", "!">>, index)
        openEndIndex == IndexOf(c, <<"]">>, startIndex)
    IN  IF startIndex = -1 \/ openEndIndex = -1 THEN [threw |-> FALSE, blocks |-> bl]
        ELSE
        LET openName == Trim(Slice(c, startIndex + 2, openEndIndex))
            closeTag == <<"[", "~">> \o openName \o <<"]">>
            closeStartIndex == CloseStartIndex(c, closeTag, openEndIndex)
            endIndex == closeStartIndex + Len(closeTag)
        IN  IF closeStartIndex = -1 THEN ScanFrom(c, openEndIndex + 1, bl)
            ELSE IF PushThrows(bl, openName) THEN [threw |-> TRUE, blocks |-> bl]
            ELSE ScanFrom(c, endIndex,
                          PushBlock(bl, openName,
                                    [startIndex |-> startIndex, endIndex |-> endIndex,
                                     innerContent |-> Slice(c, openEndIndex + 1, closeStartIndex)]))

_findBlockPositions(c) == ScanFrom(c, 0, NoBlocks)

(***************************************************************************)
(* Inputs of the scanner: concatenations of at most MaxPieces pieces.      *)
(***************************************************************************)
MaxPieces == 4

OpenTag(n) == <<"[", "!">> \o n \o <<"]">>

CloseTag(n) == <<"[", "~">> \o n \o <<"]">>

ScanPieces ==
    { OpenTag(<<"a">>), CloseTag(<<"a">>), OpenTag(<<" ", "b", " ">>), CloseTag(<<"b">>),
      OpenTag(<<"constructor">>), CloseTag(<<"constructor">>), <<"x">>, <<"[", "!">> }

ScanInputs == {Concat(ps) : ps \in SeqsUpTo(ScanPieces, MaxPieces)}

(***************************************************************************)
(* 8. Template compositor                                                  *)
(***************************************************************************)
\* html.replace(templateTagRegex, ''): `[!` or `[~`, then lazily anything but
\* `]`, then `]`; a marker with no `]` after it does not match.
RECURSIVE CleanFrom(_, _)
CleanFrom(s, i) ==
    IF i >= Len(s) THEN <<>>
    ELSE IF (StartsWithAt(s, <<"[", "!">>, i) \/ StartsWithAt(s, <<"[", "~">>, i))
            /\ IndexOf(s, <<"]">>, i + 2) # -1
         THEN CleanFrom(s, IndexOf(s, <<"]">>, i + 2) + 1)
         ELSE <<s[i + 1]>> \o CleanFrom(s, i + 1)

_cleanTemplateTags(html) == CleanFrom(html, 0)

\* toLowerCase on the atoms that stand for a doctype declaration
ToLowerCase(a) == IF a = "<!DOCTYPE html>" THEN "<!doctype html>" ELSE a

DoctypePrefix == <<"<!DOCTYPE html>", "\n">>

_ensureDoctypeFirst(html) ==
    LET t == Trim(html)
    IN  IF t # <<>> /\ ToLowerCase(Head(t)) = "<!doctype html>" THEN html
        ELSE DoctypePrefix \o html

\* `baseBlocks[name] || []`
BaseBlockArray(baseBlocks, name) ==
    IF name \in DOMAIN baseBlocks THEN baseBlocks[name] ELSE <<>>

\* the replacements collected by the two nested loops
Replacements(baseBlocks, templateBlocks) ==
    UNION { { [innerContent |-> templateBlocks[name][i].innerContent,
               startIndex |-> BaseBlockArray(baseBlocks, name)[i].startIndex,
               endIndex |-> BaseBlockArray(baseBlocks, name)[i].endIndex] :
                 i \in 1..Min(Len(templateBlocks[name]), Len(BaseBlockArray(baseBlocks, name))) } :
            name \in DOMAIN templateBlocks }

\* replacements.sort((a, b) => b.startIndex - a.startIndex), then the splices
RECURSIVE ApplyReplacements(_, _)
ApplyReplacements(html, repl) ==
    IF repl = {} THEN html
    ELSE LET r == CHOOSE x \in repl : \A y \in repl : y.startIndex <= x.startIndex
         IN  ApplyReplacements(Slice(html, 0, r.startIndex) \o r.innerContent
                                 \o Slice(html, r.endIndex, Len(html)),
                               repl \ {r})

Thrown == <<"TypeError">>

_renderTemplateContent(base, child) ==
    LET baseBlocks == _findBlockPositions(base)
        templateBlocks == _findBlockPositions(child)
    IN  IF baseBlocks.threw \/ templateBlocks.threw THEN Thrown
        ELSE _ensureDoctypeFirst(_cleanTemplateTags(
                 ApplyReplacements(base, Replacements(baseBlocks.blocks, templateBlocks.blocks))))

(***************************************************************************)
(* Inputs of the compositor.                                               *)
(***************************************************************************)
MaxBasePieces == 3

MaxChildPieces == 3

Block(n, inner) == OpenTag(n) \o inner \o CloseTag(n)

BasePieces ==
    { Block(<<"a">>, <<"p">>), Block(<<"b">>, <<"q">>), <<"t">>, OpenTag(<<"a">>),
      <<"<!DOCTYPE html>">> }

ChildPieces ==
    { Block(<<"a">>, <<"1">>), Block(<<"a">>, <<"2">>), Block(<<"b">>, <<"3">>),
      Block(<<"constructor">>, <<"4">>) }

\* bases with a marker that has no `]` after it, and with a marker inside
\* the brackets of another
StrayBases ==
    { <<"[", "!">>, Block(<<"a">>, <<"p">>) \o <<"t", "[", "~">>,
      <<"[">> \o OpenTag(<<"a">>) \o <<"!", "b", "]">>,
      <<"[">> \o CloseTag(<<"a">>) \o <<"~", "b", "]", "t">> }

BaseInputs == {Concat(ps) : ps \in SeqsUpTo(BasePieces, MaxBasePieces)} \cup StrayBases

ChildInputs == {Concat(ps) : ps \in SeqsUpTo(ChildPieces, MaxChildPieces)}

(***************************************************************************)
(* 1. Paths.  A path is the sequence of its segments (the text between the *)
(* separators); an absolute path is kept without the leading empty         *)
(* segment, a file name as written in a directive keeps it.                *)
(***************************************************************************)
\* path.join(CWD, 'templates') with CWD = /p
templatesAbsDir == <<"p", "templates">>

\* the characters of a segment, as far as a prefix test can tell them apart
Chars(seg) == IF seg = "templates-evil" THEN <<"templates", "-evil">> ELSE <<seg>>

\* the string of an absolute path
RECURSIVE PathString(_)
PathString(p) == IF p = <<>> THEN <<>> ELSE <<"/">> \o Chars(Head(p)) \o PathString(Tail(p))

\* path.normalize of an absolute path: `.` is dropped, `..` climbs, not above /
RECURSIVE NormalizeOnto(_, _)
NormalizeOnto(done, segs) ==
    IF segs = <<>> THEN done
    ELSE IF Head(segs) = "." \/ Head(segs) = "" THEN NormalizeOnto(done, Tail(segs))
    ELSE IF Head(segs) = ".."
         THEN NormalizeOnto(IF done = <<>> THEN <<>> ELSE SubSeq(done, 1, Len(done) - 1), Tail(segs))
    ELSE NormalizeOnto(Append(done, Head(segs)), Tail(segs))

\* path.isAbsolute(fileName)
IsAbsolute(fileName) == fileName # <<>> /\ Head(fileName) = ""

\* path.join(dir, fileName) for an absolute dir: concatenate and normalize
PathJoin(dir, fileName) == NormalizeOnto(dir, fileName)

\* path.resolve(dir, fileName) for an absolute dir
pRes(dir, fileName) == IF IsAbsolute(fileName) THEN NormalizeOnto(<<>>, fileName)
                       ELSE NormalizeOnto(dir, fileName)

\* path.dirname of an absolute path
Dirname(p) == IF p = <<>> THEN <<>> ELSE SubSeq(p, 1, Len(p) - 1)

CommonPrefixLen(a, b) ==
    LET same == {n \in 0..Min(Len(a), Len(b)) : \A i \in 1..n : a[i] = b[i]}
    IN  CHOOSE n \in same : \A m \in same : m <= n

\* path.relative(from, to) for absolute paths
PathRelative(from, to) ==
    LET c == CommonPrefixLen(from, to)
    IN  [i \in 1..(Len(from) - c) |-> ".."] \o SubSeq(to, c + 1, Len(to))

\* resolvedPath.startsWith(pRes(baseDir)): a prefix test on the strings
_isSafePath(requestedPath, baseDir) ==
    StartsWithAt(PathString(requestedPath), PathString(baseDir), 0)

(***************************************************************************)
(* 3. Include resolver.  The atoms of a file are records: a run of text    *)
(* (tagged with its file and position, so that every run is unique), a     *)
(* quote character, or a directive `[include fileName]`.                   *)
(***************************************************************************)
TextAtom(file, n) == [k |-> "text", path |-> file, n |-> n]

QuoteAtom == [k |-> "quote", path |-> <<>>, n |-> 0]

IncludeAtom(fileName) == [k |-> "include", path |-> fileName, n |-> 0]

\* content.matchAll(includeRegex), without the matches wrapped in quotes on
\* both sides: the first alternative of the regex consumes `"[include x]"`
RECURSIVE MatchesFrom(_, _)
MatchesFrom(c, i) ==
    IF i >= Len(c) THEN <<>>
    ELSE IF c[i + 1].k = "quote" /\ i + 2 < Len(c) /\ c[i + 2].k = "include" /\ c[i + 3].k = "quote"
         THEN MatchesFrom(c, i + 3)
    ELSE IF c[i + 1].k = "include"
         THEN <<[index |-> i, length |-> 1, fileName |-> c[i + 1].path]>> \o MatchesFrom(c, i + 1)
    ELSE MatchesFrom(c, i + 1)

Reverse(s) == [i \in 1..Len(s) |-> s[Len(s) + 1 - i]]

\* matches.sort((a, b) => b.index - a.index)
SortedMatches(c) == Reverse(MatchesFrom(c, 0))

\* the state of one call of processIncludes
NewFrame(c, currentFile, inclusionStack) ==
    [content |-> c, currentFile |-> currentFile, inclusionStack |-> inclusionStack,
     sortedMatches |-> SortedMatches(c), k |-> 1, parts |-> <<>>, lastIndex |-> Len(c)]

\* the path a directive of the call resolves to
IncludePath(currentFile, fileName) ==
    IF IsAbsolute(fileName) THEN PathJoin(templatesAbsDir, fileName)
    ELSE LET currentDir == IF currentFile # <<>>
                           THEN Dirname(PathJoin(templatesAbsDir, currentFile))
                           ELSE templatesAbsDir
         IN  pRes(currentDir, fileName)

\* the resolver without its cycle check
MutOnInclusionStack(inclusionStack, includePath) == FALSE

\* inclusionStack.has(includePath)
OnInclusionStack(inclusionStack, includePath) == includePath \in inclusionStack

Top == frames[Len(frames)]

Pending == incPc = "running" /\ frames # <<>> /\ Top.k <= Len(Top.sortedMatches)

CurMatch == Top.sortedMatches[Top.k]

CurPath == IncludePath(Top.currentFile, CurMatch.fileName)

CurRelative == PathRelative(templatesAbsDir, CurPath)

\* parts.push(content.slice(index + fullMatch.length, lastIndex)), lastIndex = index
WithTail(f) ==
    LET m == f.sortedMatches[f.k]
    IN  [f EXCEPT !.parts = Append(@, Slice(f.content, m.index + m.length, f.lastIndex)),
                  !.lastIndex = m.index]

\* parts.push(piece) and on to the next match
WithPiece(f, piece) == [f EXCEPT !.parts = Append(@, piece), !.k = @ + 1]

ReplaceTop(f) == [frames EXCEPT ![Len(frames)] = f]

\* `⛔ 包含路径不安全，已跳过`
IncludeUnsafe ==
    /\ Pending
    /\ ~_isSafePath(CurPath, templatesAbsDir)
    /\ frames' = ReplaceTop(WithPiece(WithTail(Top), <<>>))
    /\ UNCHANGED <<fs, incResult, incPc, reads, includedFiles, isCompilationMode, exceptInclude>>

\* `⚠️ 循环包含跳过`
IncludeCycle ==
    /\ Pending
    /\ _isSafePath(CurPath, templatesAbsDir)
    /\ OnInclusionStack(Top.inclusionStack, CurPath)
    /\ frames' = ReplaceTop(WithPiece(WithTail(Top), <<>>))
    /\ UNCHANGED <<fs, incResult, incPc, reads, includedFiles, isCompilationMode, exceptInclude>>

\* `⚠️ 自包含跳过`
IncludeSelf ==
    /\ Pending
    /\ _isSafePath(CurPath, templatesAbsDir)
    /\ ~OnInclusionStack(Top.inclusionStack, CurPath)
    /\ CurRelative = Top.currentFile
    /\ frames' = ReplaceTop(WithPiece(WithTail(Top), <<>>))
    /\ UNCHANGED <<fs, incResult, incPc, reads, includedFiles, isCompilationMode, exceptInclude>>

CanRead ==
    /\ Pending
    /\ _isSafePath(CurPath, templatesAbsDir)
    /\ ~OnInclusionStack(Top.inclusionStack, CurPath)
    /\ CurRelative # Top.currentFile

\* readFile is awaited inside try { ... } catch (error) { ... parts.push('') }
CatchesReadError == TRUE

\* readFile rejects: `⛔ 包含失败`
IncludeReadFails ==
    /\ CanRead
    /\ CurPath \notin DOMAIN fs
    /\ reads' = reads \cup {CurPath}
    /\ IF CatchesReadError
       THEN /\ frames' = ReplaceTop(WithPiece(WithTail(Top), <<>>))
            /\ UNCHANGED incPc
       ELSE /\ frames' = <<>>
            /\ incPc' = "rejected"
    /\ UNCHANGED <<fs, incResult, includedFiles, isCompilationMode, exceptInclude>>

\* readFile resolves: the dependency is recorded and the recursive call starts
IncludeRecurse ==
    /\ CanRead
    /\ CurPath \in DOMAIN fs
    /\ reads' = reads \cup {CurPath}
    /\ includedFiles' = IF isCompilationMode THEN includedFiles \cup {CurRelative}
                        ELSE includedFiles
    /\ frames' = Append(ReplaceTop(WithTail(Top)),
                        NewFrame(fs[CurPath], CurRelative, Top.inclusionStack \cup {CurPath}))
    /\ UNCHANGED <<fs, incResult, incPc, isCompilationMode, exceptInclude>>

\* the parts joined in the order they were pushed
MutFrameResult(f) ==
    IF f.sortedMatches = <<>> THEN f.content
    ELSE Concat(Append(f.parts, Slice(f.content, 0, f.lastIndex)))

\* what a call returns once its matches are used up
FrameResult(f) ==
    IF f.sortedMatches = <<>> THEN f.content
    ELSE Concat(Reverse(Append(f.parts, Slice(f.content, 0, f.lastIndex))))

\* a call returns: to the awaiting caller, or to the renderer
IncludeReturn ==
    /\ incPc = "running" /\ frames # <<>>
    /\ Top.k > Len(Top.sortedMatches)
    /\ IF Len(frames) = 1
       THEN /\ incResult' = FrameResult(Top)
            /\ incPc' = "done"
            /\ frames' = <<>>
       ELSE /\ frames' = [i \in 1..(Len(frames) - 1) |->
                             IF i = Len(frames) - 1
                             THEN WithPiece(frames[i], FrameResult(Top)) ELSE frames[i]]
            /\ UNCHANGED <<incResult, incPc>>
    /\ UNCHANGED <<fs, reads, includedFiles, isCompilationMode, exceptInclude>>

(***************************************************************************)
(* Inputs of the include resolver: the page a.html, the fragments          *)
(* sub/b.html and c.html, and x.html in the sibling directory              *)
(* templates-evil; secret.html lies beside the template root.              *)
(***************************************************************************)
MaxTopDirectives == 2

MaxNestedDirectives == 1

FileA == <<"a.html">>

FileB == <<"sub", "b.html">>

FileC == <<"c.html">>

FileX == <<"..", "templates-evil", "x.html">>

Plain(fileName) == [fileName |-> fileName, quoted |-> FALSE]

Quoted(fileName) == [fileName |-> fileName, quoted |-> TRUE]

DirectivesA ==
    { Plain(<<"sub", "b.html">>), Plain(<<"c.html">>), Plain(<<"a.html">>),
      Plain(<<"..", "templates-evil", "x.html">>), Plain(<<"..", "secret.html">>),
      Plain(<<"missing.html">>), Quoted(<<"c.html">>) }

DirectivesB == { Plain(<<"..", "a.html">>), Plain(<<"b.html">>), Plain(<<"", "c.html">>) }

DirectivesC == { Plain(<<"a.html">>), Plain(<<"sub", "b.html">>) }

\* text, then each directive followed by text
RECURSIVE Laid(_, _, _)
Laid(file, ds, n) ==
    IF ds = <<>> THEN <<>>
    ELSE (IF Head(ds).quoted THEN <<QuoteAtom, IncludeAtom(Head(ds).fileName), QuoteAtom>>
          ELSE <<IncludeAtom(Head(ds).fileName)>>)
         \o <<TextAtom(file, n)>> \o Laid(file, Tail(ds), n + 1)

FileContent(file, ds) == <<TextAtom(file, 0)>> \o Laid(file, ds, 1)

Abs(file) == PathJoin(templatesAbsDir, file)

\* the disks on which a.html, sub/b.html and c.html hold the given directives
FileSystemsOf(seqsA, seqsB, seqsC) ==
    { [p \in {Abs(FileA), Abs(FileB), Abs(FileC), Abs(FileX), <<"p", "secret.html">>} |->
         IF p = Abs(FileA) THEN FileContent(FileA, da)
         ELSE IF p = Abs(FileB) THEN FileContent(FileB, db)
         ELSE IF p = Abs(FileC) THEN FileContent(FileC, dc)
         ELSE IF p = Abs(FileX) THEN FileContent(FileX, <<>>)
         ELSE FileContent(<<"..", "secret.html">>, <<>>)] :
      da \in seqsA, db \in seqsB, dc \in seqsC }

FileSystems ==
    FileSystemsOf(SeqsUpTo(DirectivesA, MaxTopDirectives),
                  SeqsUpTo(DirectivesB, MaxNestedDirectives),
                  SeqsUpTo(DirectivesC, MaxNestedDirectives))

\* the include graphs of the termination check: cycles of length one to
\* three through the page, diamonds, a missing file, an unsafe path
MaxFairDirectives == 1

FairDirectivesA ==
    { Plain(<<"sub", "b.html">>), Plain(<<"c.html">>), Plain(<<"a.html">>),
      Plain(<<"missing.html">>), Plain(<<"..", "secret.html">>) }

NoneOrOne(dirs) == {<<>>} \cup {<<d>> : d \in dirs}

FairFileSystems ==
    FileSystemsOf(SeqsUpTo(FairDirectivesA, MaxFairDirectives),
                  NoneOrOne(DirectivesB \cup {Plain(<<"missing.html">>)}),
                  NoneOrOne(DirectivesC))

\* before the call: nothing pending, the registry empty
IncludeInit ==
    /\ fs = <<>>
    /\ frames = <<>>
    /\ incResult = <<>>
    /\ incPc = "start"
    /\ reads = {}
    /\ includedFiles = {}
    /\ isCompilationMode \in BOOLEAN

\* processIncludes(rendered, templateFile) as the dev server and compile call
\* it, with the template directory as it is on disk at that moment
ProcessIncludesOn(disk) ==
    /\ incPc = "start"
    /\ fs' = disk
    /\ frames' = <<NewFrame(disk[Abs(FileA)], FileA, {})>>
    /\ incPc' = "running"
    /\ UNCHANGED <<incResult, reads, includedFiles, isCompilationMode, exceptInclude>>

ProcessIncludes == \E disk \in FileSystems : ProcessIncludesOn(disk)

ProcessIncludesFair == \E disk \in FairFileSystems : ProcessIncludesOn(disk)

IncludeIdle ==
    /\ fs = <<>> /\ frames = <<>> /\ incResult = <<>> /\ incPc = "idle"
    /\ reads = {} /\ includedFiles = {} /\ isCompilationMode = FALSE

(***************************************************************************)
(* 8. renderTemplate: the [extends] directive and the base template        *)
(***************************************************************************)
\* the /i flag of extendsRegex on the keyword
LowerWord(a) == IF a \in {"EXTENDS", "Extends"} THEN "extends" ELSE a

RECURSIVE SkipSpaces(_, _)
SkipSpaces(c, i) == IF i < Len(c) /\ c[i + 1] = " " THEN SkipSpaces(c, i + 1) ELSE i

NoMatch == [found |-> FALSE, name |-> <<>>, length |-> 0]

\* templateContent.match(extendsRegex): `[`, spaces, extends, spaces, the name
\* up to the first `]`, the rest of the line and its line break
ExtendsMatch(c) ==
    IF ~StartsWithAt(c, <<"[">>, 0) THEN NoMatch
    ELSE LET kw == SkipSpaces(c, 1)
         IN  IF ~(kw < Len(c) /\ LowerWord(c[kw + 1]) = "extends") THEN NoMatch
             ELSE IF ~StartsWithAt(c, <<" ">>, kw + 1) THEN NoMatch
             ELSE LET close == IndexOf(c, <<"]">>, kw + 2)
                      eol == IndexOf(c, <<"\n">>, close + 1)
                  IN  IF close = -1 \/ close = kw + 2 THEN NoMatch
                      ELSE [found |-> TRUE,
                            name |-> Trim(Slice(c, kw + 2, close)),
                            length |-> IF eol = -1 THEN Len(c) ELSE eol + 1]

\* the segments of a file name: the runs between the `/` characters
RECURSIVE SplitSlash(_, _)
SplitSlash(name, seg) ==
    IF name = <<>> THEN <<seg>>
    ELSE IF Head(name) = "/" THEN <<seg>> \o SplitSlash(Tail(name), "")
    ELSE SplitSlash(Tail(name), Head(name))

Segments(name) == SplitSlash(name, "")

\* basePath of renderTemplate
BasePathOf(file, baseTemplateFile) ==
    LET templatePath == PathJoin(templatesAbsDir, file)
    IN  IF baseTemplateFile # <<>> /\ Head(baseTemplateFile) = "/"
        THEN PathJoin(templatesAbsDir, Segments(baseTemplateFile))
        ELSE PathJoin(Dirname(templatePath), Segments(baseTemplateFile))

\* templateContent = await readFile(templatePath); without a directive the
\* template is its own base
RenderReadTemplate ==
    /\ renderPc = "start"
    /\ pageContent' = diskFiles[PathJoin(templatesAbsDir, templateFile)]
    /\ LET m == ExtendsMatch(pageContent')
       IN  IF ~m.found
           THEN /\ rendered' = _renderTemplateContent(pageContent', <<>>)
                /\ renderPc' = "done"
                /\ UNCHANGED basePath
           ELSE /\ basePath' = BasePathOf(templateFile, m.name)
                /\ renderPc' = "access"
                /\ UNCHANGED rendered
    /\ UNCHANGED <<diskFiles, templateFile, baseTouched, exceptRender>>

\* await access(basePath) rejects: `基模板文件不存在`
RenderBaseMissing ==
    /\ renderPc = "access"
    /\ basePath \notin DOMAIN diskFiles
    /\ baseTouched' = baseTouched \cup {basePath}
    /\ renderPc' = "failed"
    /\ UNCHANGED <<diskFiles, templateFile, pageContent, basePath, rendered, exceptRender>>

\* access resolves, the base is read and the two are composed
RenderCompose ==
    /\ renderPc = "access"
    /\ basePath \in DOMAIN diskFiles
    /\ baseTouched' = baseTouched \cup {basePath}
    /\ rendered' = _renderTemplateContent(
                       diskFiles[basePath],
                       Slice(pageContent, ExtendsMatch(pageContent).length, Len(pageContent)))
    /\ renderPc' = "done"
    /\ UNCHANGED <<diskFiles, templateFile, pageContent, basePath, exceptRender>>

(***************************************************************************)
(* Inputs of renderTemplate: the pages a.html and sub/b.html, base.html in *)
(* the template root and possibly in sub, secret.html beside the root and  *)
(* /etc/passwd outside the project.                                        *)
(***************************************************************************)
ExtendsTargets ==
    { <<"base.html">>, <<"..", "/", "base.html">>, <<"/", "base.html">>,
      <<"..", "/", "secret.html">>, <<"..", "/", "..", "/", "..", "/", "etc", "/", "passwd">>,
      <<"/", "..", "/", "secret.html">>, <<"missing.html">> }

ExtendsLine(keyword, target, comment) ==
    <<"[", keyword, " ">> \o target \o <<"]">> \o comment \o <<"\n">>

PageBodies == { <<>>, Block(<<"a">>, <<"1">>), Block(<<"a">>, <<"1">>) \o Block(<<"b">>, <<"3">>) }

Pages ==
    PageBodies \cup
    { ExtendsLine(kw, t, cm) \o body :
        kw \in {"extends", "EXTENDS"}, t \in ExtendsTargets, cm \in {<<>>, <<" ", "x">>},
        body \in PageBodies }

BaseHtml == Block(<<"a">>, <<"p">>) \o <<"t">> \o Block(<<"b">>, <<"q">>)

Disks ==
    { [p \in {PathJoin(templatesAbsDir, f), PathJoin(templatesAbsDir, <<"base.html">>),
              <<"p", "secret.html">>, <<"etc", "passwd">>} \cup subBase |->
         IF p = PathJoin(templatesAbsDir, f) THEN page
         ELSE IF p = <<"p", "secret.html">> THEN <<"secret">>
         ELSE IF p = <<"etc", "passwd">> THEN <<"passwd">>
         ELSE BaseHtml] :
      f \in {FileA, FileB}, page \in Pages,
      subBase \in {{}, {PathJoin(templatesAbsDir, <<"sub", "base.html">>)}} }

RenderInit ==
    /\ diskFiles \in Disks
    /\ templateFile \in {f \in {FileA, FileB} : PathJoin(templatesAbsDir, f) \in DOMAIN diskFiles}
    /\ pageContent = <<>>
    /\ basePath = <<>>
    /\ baseTouched = {}
    /\ rendered = <<>>
    /\ renderPc = "start"

RenderIdle ==
    /\ diskFiles = <<>> /\ templateFile = <<>> /\ pageContent = <<>> /\ basePath = <<>>
    /\ baseTouched = {} /\ rendered = <<>> /\ renderPc = "idle"

(***************************************************************************)
(* 9. The {{...}} engine.  A template is a sequence of tokens: a piece of   *)
(* text or one whole {{...}} tag.  x and y are the names a tag binds, e is  *)
(* the text of a text token or the expression of a tag; a name is a        *)
(* sequence of parts so that p_index is <<"p", "_index">>.                  *)
(***************************************************************************)
Tok(k, x, y, e) == [k |-> k, x |-> x, y |-> y, e |-> e]

Text(s) == Tok("text", <<>>, <<>>, <<s>>)
\* {{e}}
Expr(e) == Tok("expr", <<>>, <<>>, e)
\* `{{e}}`
Backticked(e) == Tok("quoted", <<>>, <<>>, e)
\* {{a.b}}
Path(a, b) == Tok("path", a, b, <<>>)
\* {{user: name()}}
User(name) == Tok("user", name, <<>>, <<>>)
\* {{if e}}  {{else if e}}  {{else if}}  {{else}}  {{endif}}
If(e) == Tok("if", <<>>, <<>>, e)
ElseIf(e) == Tok("elif", <<>>, <<>>, e)
ElseIfBare == Tok("elifbare", <<>>, <<>>, <<>>)
Else == Tok("else", <<>>, <<>>, <<>>)
EndIf == Tok("endif", <<>>, <<>>, <<>>)
\* {{for x in e}}  {{for x, y in e}}  {{empty}}  {{endfor}}  {{break}}  {{continue}}
For(x, e) == Tok("for", x, <<>>, e)
ForKV(x, y, e) == Tok("forkv", x, y, e)
Empty == Tok("empty", <<>>, <<>>, <<>>)
EndFor == Tok("endfor", <<>>, <<>>, <<>>)
Break == Tok("break", <<>>, <<>>, <<>>)
Continue == Tok("continue", <<>>, <<>>, <<>>)

\* index of the first token at or after from whose kind is in kinds, else -1
FirstOf(c, kinds, from) ==
    LET hits == {i \in Max(from, 0)..(Len(c) - 1) : c[i + 1].k \in kinds}
    IN  IF hits = {} THEN -1 ELSE CHOOSE i \in hits : \A j \in hits : i <= j

unsafeKeys ==
    { <<"__proto__">>, <<"constructor">>, <<"prototype">>, <<"then">>, <<"toString">>,
      <<"valueOf">>, <<"Object">>, <<"Function">>, <<"Promise">> }

(***************************************************************************)
(* JavaScript values: a type, the string String(value) or JSON.stringify   *)
(* gives, and for arrays and objects the own entries in enumeration order. *)
(***************************************************************************)
Val(ty, s, items) == [ty |-> ty, s |-> s, items |-> items]

Null == Val("null", "", <<>>)
Undefined == Val("undefined", "", <<>>)
Bool(b) == Val("bool", IF b THEN "true" ELSE "false", <<>>)
Num(s) == Val("num", s, <<>>)
Str(s) == Val("str", s, <<>>)
Func(s) == Val("function", s, <<>>)
\* a string that holds tags: s is its text, items its tokens
Tpl(s, tokens) == Val("str", s, tokens)

\* String(i) of an index
IntStr == <<"0", "1", "2", "3", "4", "5", "6", "7", "8", "9">>

Arr(s, values) ==
    Val("array", s, [i \in 1..Len(values) |-> [key |-> IntStr[i], val |-> values[i]]])

Obj(s, entries) == Val("object", s, entries)

\* !!value
Truthy(v) ==
    CASE v.ty \in {"null", "undefined"} -> FALSE
      [] v.ty = "bool" -> v.s = "true"
      [] v.ty = "num" -> v.s \notin {"0", "NaN"}
      [] v.ty = "str" -> v.s # ""
      [] OTHER -> TRUE

_safeToString(value) ==
    IF value.ty \in {"null", "undefined"} \/ value.s = "" THEN <<>>
    ELSE IF value.ty = "str" /\ value.items # <<>> THEN value.items
    ELSE <<Text(value.s)>>

\* the names _createSafeSandbox lays over the variables
safeFunctions ==
    { <<"String">>, <<"Number">>, <<"Boolean">>, <<"Array">>, <<"Date">>, <<"Math">>, <<"JSON">>,
      <<"and">>, <<"or">>, <<"not">>, <<"eq">>, <<"neq">>, <<"gt">>, <<"lt">>, <<"gte">>, <<"lte">> }

_createSafeSandbox(variables) ==
    [n \in (DOMAIN variables \ unsafeKeys) \cup safeFunctions |->
        IF n \in safeFunctions THEN Func("function") ELSE variables[n]]

\* what vm.runInContext gives for the literal expressions used here; `boom(`
\* is a syntax error
Literals ==
    (<<"1>2">> :> Bool(FALSE)) @@ (<<"2>1">> :> Bool(TRUE)) @@
    (<<"[]">> :> Arr("[]", <<>>)) @@ (<<"[1,2]">> :> Arr("[1,2]", <<Num("1"), Num("2")>>)) @@
    (<<"null">> :> Null) @@ (<<"undefined">> :> Undefined)

\* the names every vm context resolves without the sandbox having them: the
\* built-in constructors and what the global object inherits from
\* Object.prototype
ContextGlobals ==
    (<<"Object">> :> Func("function Object() { [native code] }")) @@
    (<<"Function">> :> Func("function Function() { [native code] }")) @@
    (<<"Promise">> :> Func("function Promise() { [native code] }")) @@
    (<<"constructor">> :> Func("function Object() { [native code] }")) @@
    (<<"toString">> :> Func("function toString() { [native code] }")) @@
    (<<"valueOf">> :> Func("function valueOf() { [native code] }")) @@
    (<<"__proto__">> :> Obj("{}", <<>>))

\* the names the context object sets to undefined, over the sandbox
\* (console is an object without prototype and is not among them)
nulledNames ==
    { <<"process">>, <<"global">>, <<"setTimeout">>, <<"setInterval">>, <<"setImmediate">>,
      <<"Buffer">>, <<"require">> }

\* the process object of the host
HostProcess == Val("host", "[object process]", <<>>)

\* .constructor.constructor('return process')() after a name
EscapeSuffix == <<".constructor", ".constructor", "('return process')()">>

\* a one-part expression: a literal, a name the context nulls, a name of the
\* sandbox, a name of the context's global object, or an error (syntax
\* error, unknown name), which is caught and gives null
ScopeValue(expr, variables) ==
    LET context == _createSafeSandbox(variables)
    IN  IF expr \in DOMAIN Literals THEN Literals[expr]
        ELSE IF expr \in nulledNames THEN Undefined
        ELSE IF expr \in DOMAIN context THEN context[expr]
        ELSE IF expr \in DOMAIN ContextGlobals THEN ContextGlobals[expr]
        ELSE Null

\* the objects and functions of the sandbox, and the context object `this`
\* itself, were made by the host: their constructor is the host's Object or
\* Function; a literal and a boxed primitive belong to the context
IsHostObject(expr, variables) ==
    \/ expr = <<"this">>
    \/ /\ expr \notin DOMAIN Literals
       /\ expr \notin nulledNames
       /\ expr \in DOMAIN _createSafeSandbox(variables)
       /\ _createSafeSandbox(variables)[expr].ty \in {"function", "array", "object"}

\* the value of the context's own `this`
IsDefined(expr, variables) ==
    expr = <<"this">> \/ ScopeValue(expr, variables).ty \notin {"null", "undefined"}

\* after a name: .push(1), .a = 5 and = 5
PushSuffix == <<".push(1)">>

SetSuffix == <<".a = 5">>

AssignSuffix == <<" = 5">>

\* JSON.stringify of an array after push(1), of an object after .a = 5
PushedStrings ==
    ("[]" :> "[1]") @@ ("[1]" :> "[1,1]") @@ ("[1,1]" :> "[1,1,1]") @@ ("[1,1,1]" :> "[1,1,1,1]") @@
    ("[7,8,9]" :> "[7,8,9,1]") @@ ("[7,8,9,1]" :> "[7,8,9,1,1]") @@
    ("[7,8,9,1,1]" :> "[7,8,9,1,1,1]") @@ ("[7,8,9,1,1,1]" :> "[7,8,9,1,1,1,1]")

AssignedStrings ==
    ("{}" :> "{\"a\":5}") @@ ("{\"a\":5}" :> "{\"a\":5}") @@ ("{\"a\":1}" :> "{\"a\":5}") @@
    ("{\"a\":1,\"b\":2}" :> "{\"a\":5,\"b\":2}") @@ ("{\"a\":5,\"b\":2}" :> "{\"a\":5,\"b\":2}")

Pushed(v) ==
    Arr(PushedStrings[v.s],
        [i \in 1..(Len(v.items) + 1) |-> IF i <= Len(v.items) THEN v.items[i].val ELSE Num("1")])

Assigned(v) ==
    Obj(AssignedStrings[v.s],
        IF \E i \in 1..Len(v.items) : v.items[i].key = "a"
        THEN [i \in 1..Len(v.items) |->
                 IF v.items[i].key = "a" THEN [key |-> "a", val |-> Num("5")] ELSE v.items[i]]
        ELSE Append(v.items, [key |-> "a", val |-> Num("5")]))

\* the name resolves to the value the variables hold under it: the sandbox
\* copies the reference, so the context and the variables share the object
SharesObject(name, variables) ==
    /\ name \notin DOMAIN Literals
    /\ name \notin nulledNames
    /\ name \notin safeFunctions
    /\ name \in DOMAIN variables \ unsafeKeys

\* the variables after vm.runInContext(`(${expr})`, context): a method call
\* or a property assignment changes the object itself; an assignment to the
\* name changes the context, which is a copy made for this evaluation
VariablesAfter(expr, variables) ==
    IF Len(expr) # 2 \/ ~SharesObject(<<expr[1]>>, variables) THEN variables
    ELSE IF Tail(expr) = PushSuffix /\ variables[<<expr[1]>>].ty = "array"
    THEN [variables EXCEPT ![<<expr[1]>>] = Pushed(@)]
    ELSE IF Tail(expr) = SetSuffix /\ variables[<<expr[1]>>].ty = "object"
    THEN [variables EXCEPT ![<<expr[1]>>] = Assigned(@)]
    ELSE variables

\* value.push(1): the new length of an array, a TypeError elsewhere
PushReturns(value) == IF value.ty = "array" THEN Num(IntStr[Len(value.items) + 2]) ELSE Null

\* vm.runInContext(`(${expr})`, context) inside the try: a one-part
\* expression; a member access or a call on a nulled name, which is a
\* TypeError and gives null; or the walk from a value to the Function
\* constructor of its maker, whose function body runs with the maker's
\* globals: the host's process for a host object, the context's nulled
\* process otherwise
_evaluateExpression(expr, variables) ==
    IF Len(expr) <= 1 THEN ScopeValue(expr, variables)
    ELSE IF Tail(expr) = AssignSuffix
    THEN IF <<expr[1]>> \in (DOMAIN Literals \ {<<"undefined">>}) \cup {<<"this">>} THEN Null ELSE Num("5")
    ELSE IF ~IsDefined(<<expr[1]>>, variables) THEN Null
    ELSE IF Tail(expr) = PushSuffix THEN PushReturns(ScopeValue(<<expr[1]>>, variables))
    ELSE IF Tail(expr) = SetSuffix THEN Num("5")
    ELSE IF Tail(expr) = EscapeSuffix
    THEN IF IsHostObject(<<expr[1]>>, variables) THEN HostProcess ELSE Undefined
    ELSE Null

\* Object.hasOwnProperty.call(current, key) ? current[key] : undefined, one level
OwnProperty(current, key) ==
    LET hits == {i \in 1..Len(current.items) : <<current.items[i].key>> = key}
    IN  IF current.ty \notin {"array", "object"} THEN Undefined
        ELSE IF current.ty = "array" /\ key = <<"length">> THEN Num(IntStr[Len(current.items) + 1])
        ELSE IF hits = {} THEN Undefined
        ELSE current.items[CHOOSE i \in hits : TRUE].val

_getValueByPath(obj, first, second) ==
    IF first \in unsafeKeys \/ first \notin DOMAIN obj THEN Undefined
    ELSE IF obj[first].ty \in {"null", "undefined"} \/ second \in unsafeKeys THEN Undefined
    ELSE OwnProperty(obj[first], second)

\* the variables of the customize modules
customizeVariables ==
    (<<"g">> :> Str("G")) @@ (<<"t">> :> Bool(TRUE)) @@ (<<"f">> :> Bool(FALSE)) @@
    (<<"items">> :> Arr("[7,8,9]", <<Num("7"), Num("8"), Num("9")>>)) @@
    (<<"none">> :> Obj("{}", <<>>)) @@
    (<<"obj">> :> Obj("{\"a\":1,\"b\":2}", <<[key |-> "a", val |-> Num("1")], [key |-> "b", val |-> Num("2")]>>))

\* a function: whether a call without arguments throws, else what it returns
Fn(throws, returns) == [throws |-> throws, returns |-> returns]

\* the functions of the customize modules: hi and boom of customize/m.js
customizeFunctions == (<<"m.hi">> :> Fn(FALSE, Str("hi"))) @@ (<<"m.boom">> :> Fn(TRUE, Undefined))

\* userFeatures as a completed loadUserFeatures leaves it
LoadedFeatures == [variables |-> customizeVariables, functions |-> customizeFunctions]

userVariables == userFeatures.variables

userFunctions == userFeatures.functions

\* the registry is loaded, no reload and no render is under way
FeaturesLoaded ==
    /\ userFeatures = LoadedFeatures /\ loadPc = "idle" /\ callerVariables = <<>>
    /\ contexts = <<>> /\ featTemplate = <<>> /\ featOutputs = <<>>

\* what the literal {} that holds the functions inherits from Object.prototype,
\* called as a method of that object without arguments
inheritedFunctions ==
    (<<"constructor">> :> Fn(FALSE, Obj("{}", <<>>))) @@
    (<<"toString">> :> Fn(FALSE, Str("[object Object]"))) @@
    (<<"valueOf">> :> Fn(FALSE, Obj("{}", <<>>))) @@
    (<<"toLocaleString">> :> Fn(FALSE, Str("[object Object]"))) @@
    (<<"hasOwnProperty">> :> Fn(FALSE, Bool(FALSE))) @@
    (<<"isPrototypeOf">> :> Fn(FALSE, Bool(FALSE))) @@
    (<<"__defineGetter__">> :> Fn(TRUE, Undefined))

\* userFeatures.functions[funcName]: own properties first, then the prototype
FunctionNamed(funcName) == (userFunctions @@ inheritedFunctions)[funcName]

\* the names for which userFeatures.functions[funcName] is truthy
FunctionNames == DOMAIN userFunctions \cup DOMAIN inheritedFunctions

\* the function the call invokes, if any
Invokes(funcName) == IF funcName \in FunctionNames THEN {funcName} ELSE {}

_executeUserFunction(funcName) ==
    IF funcName \notin FunctionNames \/ FunctionNamed(funcName).throws THEN Null
    ELSE FunctionNamed(funcName).returns

RECURSIVE processVariables(_, _)

\* the last-iteration test off by one
MutIsLast(i, n) == i = n

\* i === entries.length - 1
IsLast(i, n) == i = n - 1

\* the context of iteration i (0-based) of processLoop
LoopVariables(variables, namesArray, entries, i) ==
    LET primaryVar == namesArray[1]
        isKeyValue == Len(namesArray) > 1
        entry == entries[i + 1]
        bound ==
            (primaryVar :> (IF isKeyValue THEN Str(entry.key) ELSE entry.val)) @@
            ((primaryVar \o <<"_index">>) :> Num(IntStr[i + 1])) @@
            ((primaryVar \o <<"_isFirst">>) :> Bool(i = 0)) @@
            ((primaryVar \o <<"_isLast">>) :> Bool(IsLast(i, Len(entries))))
    IN  IF isKeyValue THEN (namesArray[2] :> entry.val) @@ bound @@ variables
        ELSE bound @@ variables

\* processedContent.includes('{{break}}')
IncludesTag(c, kind) == \E i \in 1..Len(c) : c[i].k = kind

\* the for loop of processLoop from iteration i on
RECURSIVE LoopFrom(_, _, _, _, _, _)
LoopFrom(i, loopResult, entries, namesArray, loopContent, variables) ==
    IF i >= Len(entries) THEN loopResult
    ELSE LET processedContent ==
                 processVariables(loopContent, LoopVariables(variables, namesArray, entries, i))
         IN  IF IncludesTag(processedContent, "break") THEN loopResult
             ELSE IF IncludesTag(processedContent, "continue")
             THEN LoopFrom(i + 1, loopResult, entries, namesArray, loopContent, variables)
             ELSE LoopFrom(i + 1, loopResult \o processedContent, entries, namesArray,
                           loopContent, variables)

\* emptyContent is undefined when the loop has no {{empty}}; collection.map
\* throws on what is not an array, Object.entries gives the own entries
processLoop(namesArray, collectionName, loopContent, hasEmpty, emptyContent, variables) ==
    IF \E i \in 1..Len(namesArray) : namesArray[i] \in unsafeKeys THEN <<>>
    ELSE LET collection == _evaluateExpression(collectionName, variables)
             isEmpty == \/ ~Truthy(collection)
                        \/ collection.ty \in {"array", "object"} /\ collection.items = <<>>
             isKeyValue == Len(namesArray) > 1
         IN  IF isEmpty
             THEN IF hasEmpty /\ emptyContent # <<>>
                  THEN processVariables(emptyContent, variables) ELSE <<>>
             ELSE IF ~isKeyValue /\ collection.ty # "array" THEN <<>>
             ELSE LoopFrom(0, <<>>, collection.items, namesArray, loopContent, variables)

\* result.replace(forRegex, ...) or result.replace(forKeyValueRegex, ...): each
\* tag of the kind that has an {{endfor}} after it starts a match, the body
\* ends at the first {{empty}} or {{endfor}}, the empty branch at the first
\* {{endfor}}
RECURSIVE ReplaceLoops(_, _, _, _)
ReplaceLoops(c, pos, kind, variables) ==
    LET i == FirstOf(c, {kind}, pos)
    IN  IF i = -1 \/ FirstOf(c, {"endfor"}, i + 1) = -1 THEN Slice(c, pos, Len(c))
        ELSE LET bodyEnd == FirstOf(c, {"empty", "endfor"}, i + 1)
                 hasEmpty == c[bodyEnd + 1].k = "empty"
                 end == IF hasEmpty THEN FirstOf(c, {"endfor"}, bodyEnd + 1) ELSE bodyEnd
                 tag == c[i + 1]
                 names == IF kind = "forkv" THEN <<tag.x, tag.y>> ELSE <<tag.x>>
             IN  Slice(c, pos, i)
                 \o processLoop(names, tag.e, Slice(c, i + 1, bodyEnd), hasEmpty,
                                Slice(c, bodyEnd + 1, end), variables)
                 \o ReplaceLoops(c, end + 1, kind, variables)

_processLoops(c, variables) ==
    ReplaceLoops(ReplaceLoops(c, 0, "forkv", variables), 0, "for", variables)

\* elseIfBlocks.matchAll(elseIfRegex): a match starts at an {{else if c}} tag
\* and its content runs up to the next tag that reads exactly {{else if}},
\* {{else}} or {{endif}}; inside elseIfBlocks only {{else if}} can occur
RECURSIVE ElseIfBranch(_, _, _)
ElseIfBranch(elseIfBlocks, pos, variables) ==
    LET start == FirstOf(elseIfBlocks, {"elif"}, pos)
        stop == FirstOf(elseIfBlocks, {"elifbare"}, start + 1)
    IN  IF start = -1 \/ stop = -1 THEN [found |-> FALSE, content |-> <<>>]
        ELSE IF Truthy(_evaluateExpression(elseIfBlocks[start + 1].e, variables))
        THEN [found |-> TRUE, content |-> Slice(elseIfBlocks, start + 1, stop)]
        ELSE ElseIfBranch(elseIfBlocks, stop, variables)

\* the callback of result.replace(IfRegex, ...)
IfReplacement(ifCondition, ifContent, elseIfBlocks, elseContent, variables) ==
    IF Truthy(_evaluateExpression(ifCondition, variables)) THEN ifContent
    ELSE LET branch == ElseIfBranch(elseIfBlocks, 0, variables)
         IN  IF branch.found THEN branch.content ELSE elseContent

\* one result.replace(IfRegex, ...): a match runs from an {{if c}} tag that has
\* an {{endif}} after it; the if content and each else-if block end at the
\* first {{else if ...}}, {{else}} or {{endif}}, the else content at the first
\* {{endif}}
RECURSIVE ReplaceConditionals(_, _, _)
ReplaceConditionals(c, pos, variables) ==
    LET i == FirstOf(c, {"if"}, pos)
    IN  IF i = -1 \/ FirstOf(c, {"endif"}, i + 1) = -1
        THEN [result |-> Slice(c, pos, Len(c)), hasChanges |-> FALSE]
        ELSE LET ifEnd == FirstOf(c, {"elif", "elifbare", "else", "endif"}, i + 1)
                 blocksEnd == FirstOf(c, {"else", "endif"}, ifEnd)
                 end == FirstOf(c, {"endif"}, blocksEnd)
                 ifContent == Slice(c, i + 1, ifEnd)
                 elseIfBlocks == Slice(c, ifEnd, blocksEnd)
                 elseContent == Slice(c, blocksEnd + 1, end)
                 rest == ReplaceConditionals(c, end + 1, variables)
             IN  [result |-> Slice(c, pos, i)
                             \o IfReplacement(c[i + 1].e, ifContent, elseIfBlocks, elseContent,
                                              variables)
                             \o rest.result,
                  hasChanges |-> \/ IncludesTag(ifContent \o elseIfBlocks \o elseContent, "if")
                                 \/ rest.hasChanges]

conditionalMaxIterations == 20

RECURSIVE ConditionalsFrom(_, _, _)
ConditionalsFrom(result, iterationCount, variables) ==
    IF iterationCount >= conditionalMaxIterations THEN result
    ELSE LET pass == ReplaceConditionals(result, 0, variables)
         IN  IF pass.hasChanges THEN ConditionalsFrom(pass.result, iterationCount + 1, variables)
             ELSE pass.result

_processConditionals(c, variables) == ConditionalsFrom(c, 0, variables)

\* a call without arguments
UserFunctionResult(funcCall) ==
    IF funcCall \in unsafeKeys THEN <<>> ELSE _safeToString(_executeUserFunction(funcCall))

_processUserFunctions(c, variables) ==
    Concat([i \in 1..Len(c) |-> IF c[i].k = "user" THEN UserFunctionResult(c[i].x) ELSE <<c[i]>>])

\* the functions a _processUserFunctions call invokes
UserFunctionsInvoked(c) ==
    UNION {IF c[i].k = "user" /\ c[i].x \notin unsafeKeys THEN Invokes(c[i].x) ELSE {} : i \in 1..Len(c)}

\* the tags the expression step skips: if, else, endif, for, endfor, empty,
\* break, continue, and user: calls
KeptTags == {"text", "if", "else", "endif", "for", "forkv", "endfor", "empty", "break", "continue", "user"}

\* result.replace(quotedVarRegex, ...): the backticks go
Unquoted(c) == [i \in 1..Len(c) |-> IF c[i].k = "quoted" THEN Expr(c[i].e) ELSE c[i]]

\* result.replace(objectPropertyRegex, ...): a dotted path is looked up
WithPaths(c, variables) ==
    Concat([i \in 1..Len(c) |->
               IF c[i].k = "path" THEN _safeToString(_getValueByPath(variables, c[i].x, c[i].y))
               ELSE <<c[i]>>])

\* a dollar followed by a backtick
DollarBacktick == "$[backtick]"

\* the strings of the model that hold a dollar, cut at the patterns a
\* replacement string is scanned for
DollarPieces ==
    ("a$&b" :> <<"a", "$&", "b">>) @@ ("$$" :> <<"$$">>) @@ ("c$1" :> <<"c", "$1">>) @@
    (DollarBacktick :> <<DollarBacktick>>) @@ ("$'" :> <<"$'">>)

PiecesOf(s) == IF s \in DOMAIN DollarPieces THEN DollarPieces[s] ELSE <<s>>

\* what String.prototype.replace(regex, replacement) puts for one match when
\* the replacement is a string: $$ is a dollar, $& the match, dollar-backtick
\* and dollar-quote the text before and behind it; $1 stays, the regex has
\* no group
GetSubstitution(matched, before, after, replacement) ==
    IF replacement = <<>> \/ replacement[1].k # "text" THEN replacement
    ELSE LET pieces == PiecesOf(replacement[1].e[1])
         IN  IF \A j \in 1..Len(pieces) : pieces[j] \notin {"$$", "$&", DollarBacktick, "$'"} THEN replacement
             ELSE Concat([j \in 1..Len(pieces) |->
                             CASE pieces[j] = "$$" -> <<Text("$")>>
                               [] pieces[j] = "$&" -> matched
                               [] pieces[j] = DollarBacktick -> before
                               [] pieces[j] = "$'" -> after
                               [] OTHER -> <<Text(pieces[j])>>])

\* the forEach over Object.entries(variables): a bare name of the context
\* that is not an unsafe key is replaced, the string of its value being the
\* replacement string (the keys are taken in one sweep)
BareNames(c, variables) ==
    Concat([i \in 1..Len(c) |->
               IF c[i].k = "expr" /\ c[i].e \in (DOMAIN variables \ unsafeKeys)
               THEN GetSubstitution(<<c[i]>>, SubSeq(c, 1, i - 1), SubSeq(c, i + 1, Len(c)),
                                    _safeToString(variables[c[i].e]))
               ELSE <<c[i]>>])

\* the last step on one token, the tags the value of a variable brought in
\* included: what is not a kept tag is evaluated; `else if c` is no
\* expression, its evaluation fails and gives null
EvaluateToken(t, variables) ==
    IF t.k \in KeptTags THEN <<t>>
    ELSE IF t.k \in {"elif", "elifbare"} THEN _safeToString(Null)
    ELSE IF t.k = "path" THEN _safeToString(_getValueByPath(variables, t.x, t.y))
    ELSE _safeToString(_evaluateExpression(t.e, variables))

\* the replace callback of the last step runs match by match, from left to
\* right, each evaluation on the variables as the one before left them
RECURSIVE EvaluateFrom(_, _, _, _)
EvaluateFrom(replaced, i, variables, out) ==
    IF i > Len(replaced) THEN [text |-> out, variables |-> variables]
    ELSE LET t == replaced[i]
             evaluated == t.k \notin KeptTags \cup {"elif", "elifbare", "path"}
         IN  EvaluateFrom(replaced, i + 1,
                          IF evaluated THEN VariablesAfter(t.e, variables) ELSE variables,
                          out \o EvaluateToken(t, variables))

\* the text returned, and the variables as the step leaves them
ExpressionStep(c, variables) ==
    EvaluateFrom(BareNames(WithPaths(Unquoted(c), variables), variables), 1, variables, <<>>)

_processVariablesAndExpressions(c, variables) == ExpressionStep(c, variables).text

\* the probe that never finds the template settled
MutHasUnprocessedTags(c) == TRUE

\* every tag shape is a {{...}} with a non-empty inside
_hasUnprocessedTags(c) == \E i \in 1..Len(c) : c[i].k # "text"

\* for (const handler of processingPhases) result = handler(result, variables)
\* a pass: the text it gives and the variables as its expression step leaves
\* them (the effects of expressions evaluated as conditions, as collections
\* and inside loop bodies are not followed)
PassOn(c, variables) ==
    ExpressionStep(
        _processUserFunctions(
            _processConditionals(_processLoops(c, variables), variables), variables), variables)

processingPhases(c, variables) == PassOn(c, variables).text

phaseMaxIterations == 10

RECURSIVE IterateFrom(_, _, _)

\* the while test on the pass just made: iteration++, and another pass
\* while the text changed, the ceiling is not reached and a tag is left
AfterPass(pass, previousResult, iteration) ==
    IF pass.text # previousResult /\ iteration + 1 < phaseMaxIterations /\ _hasUnprocessedTags(pass.text)
    THEN IterateFrom(pass.text, iteration + 1, pass.variables)
    ELSE pass

IterateFrom(previousResult, iteration, variables) ==
    AfterPass(PassOn(previousResult, variables), previousResult, iteration)

_processIteratively(c, variables) == IterateFrom(c, 0, variables).text

\* allVariables when _processIteratively has returned
VariablesAfterRender(c, variables) == IterateFrom(c, 0, variables).variables

processVariables(c, requestVariables) ==
    _processIteratively(c, requestVariables @@ userVariables)

(***************************************************************************)
(* Inputs of the engine: one loop or two, over literals, variables of the  *)
(* registry and a failing expression, under a safe and an unsafe name;     *)
(* conditionals with up to MaxElseIfs else-if branches.                    *)
(***************************************************************************)
MaxBodyPieces == 2

BodyPieces(x) ==
    { <<Text("X")>>, <<Expr(x)>>, <<Expr(x \o <<"_index">>)>>, <<Expr(x \o <<"_isFirst">>)>>,
      <<Expr(x \o <<"_isLast">>)>>, <<Break>>, <<Continue>>,
      <<If(x \o <<"_isLast">>), Break, EndIf>>, <<If(x \o <<"_isFirst">>), Continue, EndIf>> }

Bodies(x) == {Concat(ps) : ps \in SeqsUpTo(BodyPieces(x), MaxBodyPieces)}

EmptyBranches ==
    { [has |-> FALSE, c |-> <<>>], [has |-> TRUE, c |-> <<>>], [has |-> TRUE, c |-> <<Text("Y")>>],
      [has |-> TRUE, c |-> <<Expr(<<"g">>)>>] }

CollectionExprs ==
    { <<"[]">>, <<"[1,2]">>, <<"null">>, <<"undefined">>, <<"none">>, <<"items">>, <<"g">>, <<"boom(">> }

Loop(tag, body, eb) ==
    <<tag>> \o body \o (IF eb.has THEN <<Empty>> \o eb.c ELSE <<>>) \o <<EndFor>>

LoopTemplates ==
    { Loop(For(<<"p">>, e), body, eb) :
        e \in {<<"[1,2]">>, <<"items">>, <<"[]">>}, body \in Bodies(<<"p">>),
        eb \in {[has |-> FALSE, c |-> <<>>], [has |-> TRUE, c |-> <<Text("Y")>>]} }
    \cup { Loop(For(x, e), body, eb) :
             x \in {<<"p">>, <<"then">>}, e \in CollectionExprs,
             body \in {<<Text("X")>>, <<Expr(<<"p">>)>>}, eb \in EmptyBranches }
    \cup { Loop(ForKV(<<"k">>, v, e), body, eb) :
             v \in {<<"v">>, <<"then">>}, e \in {<<"obj">>, <<"items">>, <<"none">>, <<"g">>},
             body \in {<<Expr(<<"k">>), Expr(<<"v">>)>>, <<Expr(<<"k", "_index">>), Path(<<"obj">>, <<"a">>)>>},
             eb \in EmptyBranches }
    \cup { <<Text("a")>> \o Loop(For(<<"p">>, e1), <<Expr(<<"p">>)>>, eb) \o <<Text("b")>>
             \o Loop(For(<<"q">>, e2), <<Expr(<<"q", "_index">>), User(<<"m.hi">>)>>, eb) :
             e1 \in CollectionExprs, e2 \in {<<"[1,2]">>, <<"none">>}, eb \in EmptyBranches }

RequestContexts == { [n \in {} |-> Null], <<"p">> :> Str("outer") }

MaxElseIfs == 2

Conditions == { <<"1>2">>, <<"2>1">>, <<"t">>, <<"f">>, <<"boom(">> }

BranchTexts == <<"B", "D", "E", "F">>

\* the else-if blocks: {{else if c}} or {{else if}}, each followed by its text
ElseIfBlocks ==
    { Concat([i \in 1..Len(tags) |-> <<tags[i], Text(BranchTexts[i])>>]) :
        tags \in SeqsUpTo({ElseIf(e) : e \in Conditions} \cup {ElseIfBare}, MaxElseIfs) }

ConditionalTemplates ==
    { <<If(c0), Text("A")>> \o elifs \o tail :
        c0 \in Conditions, elifs \in ElseIfBlocks,
        tail \in {<<EndIf>>, <<Else, Text("C"), EndIf>>, <<Else, Text("C"), EndIf, Text("z")>>} }
    \cup { <<If(c0), Text("A"), If(c1), Text("B"), EndIf, Text("C"), EndIf>> :
             c0 \in Conditions, c1 \in Conditions }

PassIdle ==
    /\ passResult = <<>> /\ passPrevious = <<>> /\ passCount = 0 /\ phase = 0 /\ warned = FALSE

TemplateInit(templates) ==
    /\ tplContent \in templates
    /\ tplVariables \in RequestContexts
    /\ tplOutput = <<>>
    /\ tplPc = "start"
    /\ PassIdle

LoopsInit == TemplateInit(LoopTemplates)

ConditionalsInit == TemplateInit(ConditionalTemplates)

TemplateIdle ==
    /\ tplContent = <<>> /\ tplVariables = <<>> /\ tplOutput = <<>> /\ tplPc = "idle"
    /\ PassIdle

(***************************************************************************)
(* processVariables step by step: the phases of a pass one after the       *)
(* other, then the test of the do-while loop.                              *)
(***************************************************************************)
\* the handler at position i of processingPhases
PhaseHandler(i, c, variables) ==
    CASE i = 1 -> _processLoops(c, variables)
      [] i = 2 -> _processConditionals(c, variables)
      [] i = 3 -> _processUserFunctions(c, variables)
      [] i = 4 -> _processVariablesAndExpressions(c, variables)

\* processVariables(content, requestVariables) enters _processIteratively
ProcessVariablesOn(c, requestVariables) ==
    /\ tplPc = "start"
    /\ tplContent' = c
    /\ tplVariables' = requestVariables
    /\ passResult' = c
    /\ passPrevious' = c
    /\ passCount' = 0
    /\ phase' = 0
    /\ tplPc' = "pass"
    /\ UNCHANGED <<tplOutput, warned, exceptTemplate>>

\* result = handler(result, variables) for the next handler of the pass
RunPhase ==
    /\ tplPc = "pass"
    /\ phase < 4
    /\ passResult' = PhaseHandler(phase + 1, passResult, tplVariables @@ userVariables)
    /\ phase' = phase + 1
    /\ UNCHANGED <<tplContent, tplVariables, tplOutput, tplPc, passPrevious, passCount, warned,
                   exceptTemplate>>

\* iteration++ and the while test: another pass
NextPass ==
    /\ tplPc = "pass"
    /\ phase = 4
    /\ passResult # passPrevious
    /\ passCount + 1 < phaseMaxIterations
    /\ _hasUnprocessedTags(passResult)
    /\ passCount' = passCount + 1
    /\ passPrevious' = passResult
    /\ phase' = 0
    /\ UNCHANGED <<tplContent, tplVariables, tplOutput, tplPc, passResult, warned, exceptTemplate>>

\* iteration++ and the while test: the loop ends, the warning is logged when
\* the cap is reached, result is returned
ReturnResult ==
    /\ tplPc = "pass"
    /\ phase = 4
    /\ ~(passResult # passPrevious /\ passCount + 1 < phaseMaxIterations
          /\ _hasUnprocessedTags(passResult))
    /\ passCount' = passCount + 1
    /\ warned' = (passCount + 1 >= phaseMaxIterations)
    /\ tplOutput' = passResult
    /\ tplPc' = "done"
    /\ UNCHANGED <<tplContent, tplVariables, passResult, passPrevious, phase, exceptTemplate>>

\* templates around one unsafe name, and concatenations of at most
\* MaxVariablePieces pieces; the contexts hold an entry under an unsafe name,
\* a string that brings its own tag back, a string that brings a conditional
MaxVariablePieces == 2

UnsafeNameTemplates ==
    { <<Text("a"), tag, Text("b")>> : tag \in {Expr(n) : n \in unsafeKeys} \cup {Backticked(n) : n \in unsafeKeys} }

VariablePieces ==
    { <<Text("a")>>, <<Expr(<<"g">>)>>, <<Expr(<<"again">>)>>, <<Expr(<<"cond">>)>>, <<User(<<"m.hi">>)>>,
      <<If(<<"t">>), Expr(<<"g">>), Else, Text("C"), EndIf>>,
      <<For(<<"p">>, <<"[1,2]">>), Expr(<<"p">>), Backticked(<<"g">>), EndFor>> }

VariableTemplates ==
    UnsafeNameTemplates \cup {Concat(ps) : ps \in SeqsUpTo(VariablePieces, MaxVariablePieces)}

VariableContexts ==
    { [n \in {} |-> Null],
      <<"again">> :> Tpl("x{{again}}", <<Text("x"), Expr(<<"again">>)>>),
      <<"cond">> :> Tpl("{{if f}}A{{else}}{{g}}{{endif}}",
                        <<If(<<"f">>), Text("A"), Else, Expr(<<"g">>), EndIf>>) }
    \cup { n :> Str("secret") : n \in unsafeKeys }

\* the contexts without an entry under an unsafe name
SettlingContexts == {v \in VariableContexts : DOMAIN v \cap unsafeKeys = {}}

ProcessVariablesCall ==
    \E c \in VariableTemplates, v \in VariableContexts : ProcessVariablesOn(c, v)

ProcessVariablesSettling ==
    \E c \in {Concat(ps) : ps \in SeqsUpTo(VariablePieces, MaxVariablePieces)},
       v \in SettlingContexts : ProcessVariablesOn(c, v)

\* before the call
VariablesInit ==
    /\ tplContent = <<>>
    /\ tplVariables = <<>>
    /\ tplOutput = <<>>
    /\ tplPc = "start"
    /\ PassIdle

\* the loop phase of a pass of _processIteratively
ProcessLoops ==
    /\ tplPc = "start"
    /\ tplOutput' = _processLoops(tplContent, tplVariables @@ userVariables)
    /\ tplPc' = "done"
    /\ UNCHANGED <<tplContent, tplVariables, passVars, exceptTemplate>>

\* the conditional phase of a pass
ProcessConditionals ==
    /\ tplPc = "start"
    /\ tplOutput' = _processConditionals(tplContent, tplVariables @@ userVariables)
    /\ tplPc' = "done"
    /\ UNCHANGED <<tplContent, tplVariables, passVars, exceptTemplate>>

\* the user-function phase of a pass
ProcessUserFunctions ==
    /\ tplPc = "start"
    /\ tplOutput' = _processUserFunctions(tplContent, tplVariables @@ userVariables)
    /\ tplPc' = "done"
    /\ UNCHANGED <<tplContent, tplVariables, passVars, exceptTemplate>>

\* the expression phase of a pass
ProcessVariablesAndExpressions ==
    /\ tplPc = "start"
    /\ tplOutput' = _processVariablesAndExpressions(tplContent, tplVariables @@ userVariables)
    /\ tplPc' = "done"
    /\ UNCHANGED <<tplContent, tplVariables, passVars, exceptTemplate>>

MaxBarePieces == 3

\* the keys k, a+b and a.b
KeyK == <<"k">>

KeyPlus == <<"a+b">>

KeyDot == <<"a", ".", "b">>

\* {{k}}, {{a+b}} and {{a.b}} between text
BarePieces == {Text("x"), Text("y"), Expr(KeyK), Expr(KeyPlus), Path(<<"a">>, <<"b">>)}

BareTemplates == SeqsUpTo(BarePieces, MaxBarePieces)

\* values without `{{`: strings with and without a dollar, a number, null
BareValues == {Str("v"), Str("a$&b"), Str("$$"), Str("c$1"), Str(DollarBacktick), Str("$'"), Num("7"), Null}

BareContexts == {(KeyK :> v) @@ (KeyPlus :> Str("plus")) @@ (KeyDot :> Str("dot")) : v \in BareValues}

BareInit ==
    /\ tplContent \in BareTemplates
    /\ tplVariables \in BareContexts
    /\ tplOutput = <<>>
    /\ tplPc = "start"
    /\ PassIdle

MaxCallPieces == 2

\* names a {{user: name()}} call can carry: registered, never registered,
\* unsafe, and inherited by the registry object
CallNames ==
    { <<"m.hi">>, <<"m.boom">>, <<"m.none">>, <<"hi">>, <<"toString">>, <<"constructor">>,
      <<"hasOwnProperty">>, <<"toLocaleString">>, <<"__defineGetter__">> }

CallPieces == {Text("a"), Expr(<<"g">>)} \cup {User(n) : n \in CallNames}

CallTemplates == SeqsUpTo(CallPieces, MaxCallPieces)

CallsInit == TemplateInit(CallTemplates)

(***************************************************************************)
(* processVariables on the registry: a caller renders the same template    *)
(* again and again, handing over the same requestVariables object.         *)
(***************************************************************************)
MaxRenders == 2

MaxFeaturePieces == 2

\* the object of userFeatures.variables or of the caller that allVariables
\* holds under key k, as the call left it: the spread copies references
ObjectAfter(k, held, allVariables) == IF held.ty \in {"array", "object"} THEN allVariables[k] ELSE held

\* processVariables(content, requestVariables), whenever the caller's turn comes
ProcessVariablesAgain ==
    /\ Len(contexts) < MaxRenders
    /\ LET allVariables == callerVariables @@ userFeatures.variables
           after == VariablesAfterRender(featTemplate, allVariables)
       IN  /\ contexts' = Append(contexts, allVariables)
           /\ featOutputs' = Append(featOutputs, _processIteratively(featTemplate, allVariables))
           /\ userFeatures' =
                  [userFeatures EXCEPT !.variables =
                      [k \in DOMAIN @ |->
                          IF k \in DOMAIN callerVariables THEN @[k] ELSE ObjectAfter(k, @[k], after)]]
           /\ callerVariables' =
                  [k \in DOMAIN callerVariables |-> ObjectAfter(k, callerVariables[k], after)]
    /\ UNCHANGED <<loadPc, featTemplate, exceptFeatures>>

(***************************************************************************)
(* loadUserFeatures as the event loop runs it: it suspends at the await of *)
(* access and at the await of readdir; the loop over the files is          *)
(* synchronous.  processVariables is synchronous and runs whenever its     *)
(* caller's turn comes.                                                    *)
(***************************************************************************)
MaxReloads == 2

MaxReads == 2

NoFeatures == [variables |-> [n \in {} |-> Null], functions |-> [n \in {} |-> Null]]

\* customize/m.js after an edit: g has a new value, hi returns something else
EditedFeatures ==
    [variables |-> (<<"g">> :> Str("G2")) @@ customizeVariables,
     functions |-> (<<"m.hi">> :> Fn(FALSE, Str("ho"))) @@ customizeFunctions]

\* what a completed load of the directory yields: the modules as they were,
\* the edited modules, nothing where the directory cannot be read or holds
\* no module
FeatureVersions == {LoadedFeatures, EditedFeatures, NoFeatures}

\* the call: featuresDir is computed, `await fsPromises.access(featuresDir)`
LoadUserFeaturesAccess ==
    /\ loadPc = "idle"
    /\ reloads < MaxReloads
    /\ loadPc' = "access"
    /\ registryBefore' = userFeatures
    /\ customizeModules' \in FeatureVersions
    /\ UNCHANGED <<userFeatures, callerVariables, contexts, featTemplate, featOutputs, registryReads,
                   reloads, exceptFeaturesAndReload>>

\* access has settled: userFeatures.variables = {}, userFeatures.functions = {},
\* `await fsPromises.readdir(featuresDir)`
LoadUserFeaturesReset ==
    /\ loadPc = "access"
    /\ userFeatures' = NoFeatures
    /\ loadPc' = "readdir"
    /\ UNCHANGED <<callerVariables, contexts, featTemplate, featOutputs, reloadVars,
                   exceptFeaturesAndReload>>

\* readdir has settled: every module is required and registered, or the
\* catch logs the error; the call returns
LoadUserFeaturesFiles ==
    /\ loadPc = "readdir"
    /\ userFeatures' = customizeModules
    /\ loadPc' = "idle"
    /\ reloads' = reloads + 1
    /\ UNCHANGED <<callerVariables, contexts, featTemplate, featOutputs, registryBefore,
                   customizeModules, registryReads, exceptFeaturesAndReload>>

\* processVariables(content, requestVariables) at any turn of the event
\* loop, a reload being under way or not
ProcessVariablesReloading ==
    /\ Len(registryReads) < MaxReads
    /\ LET allVariables == callerVariables @@ userFeatures.variables
       IN  /\ contexts' = Append(contexts, allVariables)
           /\ featOutputs' = Append(featOutputs, _processIteratively(featTemplate, allVariables))
           /\ registryReads' =
                  Append(registryReads,
                         [reloading |-> loadPc # "idle", registry |-> userFeatures,
                          before |-> registryBefore, after |-> customizeModules])
    /\ UNCHANGED <<userFeatures, loadPc, callerVariables, featTemplate, registryBefore,
                   customizeModules, reloads, exceptFeaturesAndReload>>

\* what a caller hands over: nothing, the parsed query of a request, an
\* array under a name the registry has too
CallerContexts ==
    { [n \in {} |-> Null],
      <<"query">> :> Obj("{\"a\":1}", <<[key |-> "a", val |-> Num("1")]>>),
      <<"items">> :> Arr("[]", <<>>) }

FeaturePieces ==
    { <<Text("a")>>, <<Expr(<<"g">>)>>, <<Expr(<<"items">>)>>, <<Path(<<"obj">>, <<"a">>)>>,
      <<Path(<<"query">>, <<"a">>)>>, <<User(<<"m.hi">>)>>,
      <<Expr(<<"items">> \o PushSuffix)>>, <<Expr(<<"obj">> \o SetSuffix)>>,
      <<Expr(<<"query">> \o SetSuffix)>>, <<Expr(<<"g">> \o AssignSuffix)>>,
      <<Expr(<<"g">> \o PushSuffix)>>,
      <<If(<<"f">>), Expr(<<"items">> \o PushSuffix), EndIf>>,
      <<For(<<"p">>, <<"items">>), Expr(<<"p">>), EndFor>> }

FeatureTemplates == {Concat(ps) : ps \in SeqsUpTo(FeaturePieces, MaxFeaturePieces)}

RendersInit(templates) ==
    /\ userFeatures = LoadedFeatures
    /\ loadPc = "idle"
    /\ callerVariables \in CallerContexts
    /\ contexts = <<>>
    /\ featTemplate \in templates
    /\ featOutputs = <<>>

\* templates that read the registry and leave it as it is
ReloadTemplates ==
    { <<Text("a")>>, <<Expr(<<"g">>)>>, <<User(<<"m.hi">>)>>, <<Expr(<<"g">>), User(<<"m.hi">>)>>,
      <<If(<<"t">>), Expr(<<"g">>), EndIf>>, <<Path(<<"query">>, <<"a">>), Expr(<<"g">>)>> }

ReloadInit ==
    /\ RendersInit(ReloadTemplates)
    /\ registryBefore = <<>> /\ customizeModules = <<>> /\ registryReads = <<>> /\ reloads = 0

FeaturesInit == RendersInit(FeatureTemplates)

\* expressions whose evaluation fails: an unknown name, a syntax error, a
\* function that runs into the timeout
FailingExprs == { <<"nosuch">>, <<"boom(">>, <<"(function(){for(;;);})()">> }

\* a construct between two pieces of text: a conditional with or without an
\* else branch, one with an else-if, a loop with or without an empty branch
ControlledConstructs ==
    { <<If(c), Text("A")>> \o tail :
        c \in FailingExprs \cup {<<"t">>, <<"f">>}, tail \in {<<EndIf>>, <<Else, Text("C"), EndIf>>} }
    \cup { <<If(<<"f">>), Text("A"), ElseIf(c), Text("B"), ElseIfBare, Text("D"), Else, Text("C"), EndIf>> :
              c \in FailingExprs \cup {<<"t">>} }
    \cup { Loop(For(<<"p">>, c), <<Expr(<<"p">>)>>, eb) :
              c \in FailingExprs \cup {<<"[1,2]">>, <<"[]">>},
              eb \in {[has |-> FALSE, c |-> <<>>], [has |-> TRUE, c |-> <<Text("Y")>>]} }

Surrounded ==
    [before : {<<>>, <<Text("a")>>, <<Expr(<<"g">>)>>}, construct : ControlledConstructs,
     after : {<<>>, <<Text("z")>>}]

ControlledTemplates == {s.before \o s.construct \o s.after : s \in Surrounded}

ControlledInit == RendersInit(ControlledTemplates)


(***************************************************************************)
(* runCopyFiles (src/unnamed/part_001): the packaged files are copied into *)
(* the project directory.  A path is the sequence of its names; the tree   *)
(* gives for each path "none", "dir", or the content of the file, "old"    *)
(* for what the project had and "new" for what the package brings.         *)
(***************************************************************************)
alwaysOverwriteFiles == {"f-README.md", "f-CHANGELOG.md"}

\* the entries of filesToCopy that the package holds, and what is below them
filesToCopy == {<<"templates">>, <<"dev.js">>, <<"f-README.md">>}

PackageDirs == {<<"templates">>, <<"templates", "parts">>}

PackageFiles ==
    { <<"templates", "index.html">>, <<"templates", "parts", "nav.html">>, <<"dev.js">>,
      <<"f-README.md">> }

\* a file of the project that the package does not have
OwnFile == <<"templates", "mine.html">>

TreePaths == PackageDirs \cup PackageFiles \cup {OwnFile}

copyModes == {"overwrite", "skip-files", "skip-dirs"}

Parent(p) == SubSeq(p, 1, Len(p) - 1)

Basename(p) == p[Len(p)]

\* fs.readdir(src)
ItemsOf(dir) == {p \in PackageDirs \cup PackageFiles : Len(p) > 1 /\ Parent(p) = dir}

\* fs.access(path) succeeds
pathExists(tree, p) == tree[p] # "none"

\* the mode check made useless
MutShouldSkipFile(destExists, isRootItem, mode, shouldAlwaysOverwrite) == FALSE

shouldSkipFile(destExists, isRootItem, mode, shouldAlwaysOverwrite) ==
    IF ~destExists \/ shouldAlwaysOverwrite THEN FALSE
    ELSE IF mode = "skip-files" THEN TRUE
    ELSE IF mode = "skip-dirs" /\ isRootItem THEN TRUE
    ELSE FALSE

CopyTask(src, isRootItem) == [src |-> src, isRootItem |-> isRootItem]

\* fs.mkdir(dirPath, { recursive: true }): the directory and its missing parents
ensureDirectoryExists(tree, dir) ==
    [p \in TreePaths |->
        IF tree[p] = "none" /\ Len(p) <= Len(dir) /\ p = SubSeq(dir, 1, Len(p)) THEN "dir" ELSE tree[p]]

\* runCopyFiles up to the Promise.all: one copyFileOrDir per entry of filesToCopy
RunCopyFiles ==
    /\ copyPc = "start"
    /\ copyTasks' = {CopyTask(item, TRUE) : item \in filesToCopy}
    /\ copyPc' = "copying"
    /\ UNCHANGED <<destTree, destBefore, copyMode, exceptCopy>>

\* copyFileOrDir on a directory of the package: copyDirectory
CopyDirectory ==
    /\ copyPc = "copying"
    /\ \E t \in copyTasks :
          /\ t.src \in PackageDirs
          /\ IF pathExists(destTree, t.src) /\ copyMode = "skip-dirs"
             THEN /\ copyTasks' = copyTasks \ {t}
                  /\ UNCHANGED destTree
             ELSE /\ destTree' = ensureDirectoryExists(destTree, t.src)
                  /\ copyTasks' = (copyTasks \ {t}) \cup {CopyTask(item, FALSE) : item \in ItemsOf(t.src)}
    /\ UNCHANGED <<destBefore, copyMode, copyPc, exceptCopy>>

\* copyFileOrDir on a file of the package: copyFile
CopyFile ==
    /\ copyPc = "copying"
    /\ \E t \in copyTasks :
          /\ t.src \in PackageFiles
          /\ copyTasks' = copyTasks \ {t}
          /\ IF shouldSkipFile(pathExists(destTree, t.src), t.isRootItem, copyMode,
                               Basename(t.src) \in alwaysOverwriteFiles)
             THEN UNCHANGED destTree
             ELSE destTree' = [ensureDirectoryExists(destTree, Parent(t.src)) EXCEPT ![t.src] = "new"]
    /\ UNCHANGED <<destBefore, copyMode, copyPc, exceptCopy>>

\* every promise of the Promise.all has resolved
CopyFinish ==
    /\ copyPc = "copying"
    /\ copyTasks = {}
    /\ copyPc' = "done"
    /\ UNCHANGED <<destTree, destBefore, copyMode, copyTasks, exceptCopy>>

\* the project directories a call can find: any of the package's
\* directories and files and the project's own file, each file below a
\* directory that exists
ProjectTrees ==
    { tree \in [TreePaths -> {"none", "dir", "old"}] :
        \A p \in TreePaths :
            /\ tree[p] = "dir" <=> (p \in PackageDirs /\ tree[p] # "none")
            /\ (p \in PackageDirs => tree[p] \in {"none", "dir"})
            /\ (tree[p] # "none" /\ Len(p) > 1) => tree[Parent(p)] = "dir" }

CopyInit ==
    /\ destTree \in ProjectTrees
    /\ destBefore = destTree
    /\ copyMode \in copyModes
    /\ copyTasks = {}
    /\ copyPc = "start"

CopyIdle ==
    /\ destTree = <<>> /\ destBefore = <<>> /\ copyMode = "" /\ copyTasks = {} /\ copyPc = "idle"

(***************************************************************************)
(* Hot reload (src/dev-server.js, setupHotReload): the watcher reports a   *)
(* change, an addition or a deletion under a watched directory; the        *)
(* process's own writes are remembered for a while by monitorFileWrites.   *)
(***************************************************************************)
MaxIgnored == 2

MaxFileEvents == 2

\* files under templates, static and customize
WatchedFiles ==
    { <<"templates", "index.html">>, <<"templates", "about.html">>, <<"static", "app.css">>,
      <<"customize", "m.js">> }

fileEvents == {"change", "add", "unlink"}

\* writtenFilesToIgnore is an Array (part_000:234): the methods the code
\* calls on it that an Array has
ArrayMethods == {"push", "shift"}

\* track(file) on the tick after a write of the process
TrackWrite ==
    /\ Len(writtenFilesToIgnore) < MaxIgnored
    /\ \E p \in WatchedFiles : writtenFilesToIgnore' = Append(writtenFilesToIgnore, p)
    /\ UNCHANGED <<handled, emitted, handlerThrew, exceptHot>>

\* the interval of monitorFileWrites
ShiftIgnored ==
    /\ Len(writtenFilesToIgnore) > 0
    /\ writtenFilesToIgnore' = Tail(writtenFilesToIgnore)
    /\ UNCHANGED <<handled, emitted, handlerThrew, exceptHot>>

\* the page a template file is served as
TemplateName(filePath) == Tail(filePath)

\* handleFileEvent(event, filePath): `writtenFilesToIgnore.has(...)` is a
\* call of a method; where the object has none of that name it throws a
\* TypeError and the handler ends there
HandleFileEvent ==
    /\ Len(handled) < MaxFileEvents
    /\ ~handlerThrew
    /\ \E event \in fileEvents, filePath \in WatchedFiles :
          LET ignored == \E i \in 1..Len(writtenFilesToIgnore) : writtenFilesToIgnore[i] = filePath
              isBackendFile == filePath[1] = "customize"
              removesPage == event = "unlink" /\ filePath[1] = "templates"
          IN  /\ handled' = Append(handled, [event |-> event, filePath |-> filePath, ignored |-> ignored])
              /\ IF "has" \notin ArrayMethods
                 THEN /\ handlerThrew' = TRUE
                      /\ UNCHANGED <<emitted, cachedPages>>
                 ELSE /\ UNCHANGED handlerThrew
                      /\ IF ignored THEN UNCHANGED <<emitted, cachedPages>>
                         ELSE /\ emitted' = Append(emitted, IF isBackendFile THEN 3500 ELSE 100)
                              /\ cachedPages' =
                                     IF ~isBackendFile /\ removesPage
                                     THEN SelectSeq(cachedPages, LAMBDA page : page # TemplateName(filePath))
                                     ELSE cachedPages
    /\ UNCHANGED <<writtenFilesToIgnore, siteDisk, siteTemplate, pageIndex, siteRendered, siteDocument,
                   stagesRun, dist, sitePc, exceptSiteAndHot>>

\* the server listens with hot reload on, both templates are served
HotInit ==
    /\ writtenFilesToIgnore = <<>>
    /\ handled = <<>>
    /\ emitted = <<>>
    /\ handlerThrew = FALSE
    /\ cachedPages = << <<"index.html">>, <<"about.html">> >>
    /\ siteDisk = <<>> /\ siteTemplate = <<>> /\ pageIndex = 0 /\ siteRendered = <<>>
    /\ siteDocument = <<>> /\ stagesRun = <<>> /\ dist = {} /\ sitePc = "idle"

NoReload ==
    /\ registryBefore = <<>> /\ customizeModules = <<>> /\ registryReads = <<>> /\ reloads = 0

NoRequest == reqPath = <<>> /\ response = "none" /\ middleware = "dev-server.js"

HotIdle ==
    /\ writtenFilesToIgnore = <<>> /\ handled = <<>> /\ emitted = <<>> /\ handlerThrew = FALSE

ScanInit ==
    /\ content \in ScanInputs
    /\ blocks = [threw |-> FALSE, blocks |-> NoBlocks]
    /\ scanPc = "start"

FindBlockPositions ==
    /\ scanPc = "start"
    /\ blocks' = _findBlockPositions(content)
    /\ scanPc' = "done"
    /\ UNCHANGED <<content, exceptScan>>

ScanIdle == content = <<>> /\ blocks = [threw |-> FALSE, blocks |-> NoBlocks] /\ scanPc = "idle"

ComposeInit ==
    /\ baseContent \in BaseInputs
    /\ templateContent \in ChildInputs
    /\ finalHtml = <<>>
    /\ composePc = "start"

RenderTemplateContent ==
    /\ composePc = "start"
    /\ finalHtml' = _renderTemplateContent(baseContent, templateContent)
    /\ composePc' = "done"
    /\ UNCHANGED <<baseContent, templateContent, exceptCompose>>

ComposeIdle ==
    baseContent = <<>> /\ templateContent = <<>> /\ finalHtml = <<>> /\ composePc = "idle"

\* expressions that name process or require, directly or through the
\* constructor of a value in scope, and expressions that do not
EscapeBases ==
    { <<"this">>, <<"String">>, <<"Math">>, <<"JSON">>, <<"eq">>, <<"items">>, <<"obj">>, <<"none">>,
      <<"g">>, <<"t">>, <<"[1,2]">>, <<"null">>, <<"nosuch">>, <<"process">> }

ProcessExpressions ==
    { <<"process">>, <<"require">>, <<"process", ".env">>, <<"require", "('fs')">>,
      <<"process", ".exit()">> }
    \cup { b \o EscapeSuffix : b \in EscapeBases }

EvalExpressions == ProcessExpressions \cup EscapeBases \cup Conditions \cup CollectionExprs

EvalContexts == VariableContexts \cup { <<"process">> :> Str("mine"), <<"require">> :> Str("mine") }

EvalInit ==
    /\ evalExpr \in EvalExpressions
    /\ evalVariables \in EvalContexts
    /\ evalResult = Null
    /\ evalPc = "start"

EvalIdle == evalExpr = <<>> /\ evalVariables = <<>> /\ evalResult = Null /\ evalPc = "idle"

\* _evaluateExpression(expr, variables) with the variables processVariables
\* hands down; the try/catch makes every outcome a returned value
EvaluateExpression ==
    /\ evalPc = "start"
    /\ evalResult' = _evaluateExpression(evalExpr, evalVariables @@ userVariables)
    /\ evalPc' = "done"
    /\ UNCHANGED <<evalExpr, evalVariables, exceptEval>>

\* no request and no compile is under way
SiteIdle ==
    /\ siteDisk = <<>> /\ cachedPages = <<>> /\ siteTemplate = <<>> /\ pageIndex = 0
    /\ siteRendered = <<>> /\ siteDocument = <<>> /\ stagesRun = <<>> /\ dist = {}
    /\ sitePc = "idle"

(***************************************************************************)
(* 11. Structure validation (_validateTemplateStructure)                   *)
(*                                                                         *)
(* An error is a record: what was found, the line it is reported on, and   *)
(* the names the message quotes.                                           *)
(***************************************************************************)
Whitespace == {" ", "\n"}

RECURSIVE TrimWhiteStart(_)
TrimWhiteStart(s) == IF s # <<>> /\ Head(s) \in Whitespace THEN TrimWhiteStart(Tail(s)) ELSE s

RECURSIVE TrimWhiteEnd(_)
TrimWhiteEnd(s) ==
    IF s # <<>> /\ s[Len(s)] \in Whitespace THEN TrimWhiteEnd(SubSeq(s, 1, Len(s) - 1)) ELSE s

\* rawName.trim(): blanks and line ends are stripped
TrimWhite(s) == TrimWhiteEnd(TrimWhiteStart(s))

Includes(s, x) == \E k \in 1..Len(s) : s[k] = x

invalidChars == <<"[", "]", "{", "}", "~">>

ValidationError(kind, tagType, line, name, expected) ==
    [kind |-> kind, tagType |-> tagType, line |-> line, name |-> name, expected |-> expected]

\* parseTag(i, tagType, newLine): B when the bracket is missing, C when the
\* name is empty or has a character it may not have
parseTag(c, i, tagType, newLine) ==
    LET endIndex == IndexOf(c, <<"]">>, i)
        rawName == Slice(c, i + 2, endIndex)
        foundInvalidChars == SelectSeq(invalidChars, LAMBDA x : Includes(rawName, x))
    IN  IF endIndex = -1
        THEN [B |-> TRUE, C |-> FALSE, endIndex |-> -1, name |-> <<>>,
              errors |-> <<ValidationError("noBracket", tagType, newLine, <<>>, <<>>)>>]
        ELSE IF TrimWhite(rawName) = <<>>
        THEN [B |-> FALSE, C |-> TRUE, endIndex |-> endIndex, name |-> <<>>,
              errors |-> <<ValidationError("emptyName", tagType, newLine, <<>>, <<>>)>>]
        ELSE IF Len(foundInvalidChars) > 0
        THEN [B |-> FALSE, C |-> TRUE, endIndex |-> endIndex, name |-> <<>>,
              errors |-> <<ValidationError("invalidChars", tagType, newLine, foundInvalidChars, <<>>)>>]
        ELSE [B |-> FALSE, C |-> FALSE, endIndex |-> endIndex, name |-> TrimWhite(rawName),
              errors |-> <<>>]

\* stack.forEach(tag => errors.push(...))
Unclosed(stack) ==
    [k \in 1..Len(stack) |-> ValidationError("unclosed", "open", stack[k].line, stack[k].name, <<>>)]

\* the main loop from index i, with the line counter before content[i] is read
RECURSIVE ValidateFrom(_, _, _, _, _)
ValidateFrom(c, i, lineBefore, stack, errors) ==
    IF ~(i < Len(c)) THEN errors \o Unclosed(stack)
    ELSE
    LET line == IF c[i + 1] = "\n" THEN lineBefore + 1 ELSE lineBefore
    IN  IF StartsWithAt(c, <<"[", "!">>, i)
        THEN LET tag == parseTag(c, i, "open", line)
             IN  IF tag.B THEN errors \o tag.errors \o Unclosed(stack)
                 ELSE IF tag.C THEN ValidateFrom(c, tag.endIndex + 1, line, stack, errors \o tag.errors)
                 ELSE ValidateFrom(c, tag.endIndex + 1, line,
                                   Append(stack, [name |-> tag.name, line |-> line]), errors)
        ELSE IF StartsWithAt(c, <<"[", "~">>, i)
        THEN LET tag == parseTag(c, i, "close", line)
             IN  IF tag.B THEN errors \o tag.errors \o Unclosed(stack)
                 ELSE IF tag.C THEN ValidateFrom(c, tag.endIndex + 1, line, stack, errors \o tag.errors)
                 ELSE IF Len(stack) = 0
                 THEN ValidateFrom(c, tag.endIndex + 1, line, stack,
                                   Append(errors, ValidationError("extraClose", "close", line, tag.name, <<>>)))
                 ELSE LET lastOpen == stack[Len(stack)]
                      IN  IF lastOpen.name = tag.name
                          THEN ValidateFrom(c, tag.endIndex + 1, line,
                                            SubSeq(stack, 1, Len(stack) - 1), errors)
                          ELSE ValidateFrom(c, tag.endIndex + 1, line, stack,
                                            Append(errors, ValidationError("mismatch", "close", line,
                                                                           tag.name, lastOpen.name)))
        ELSE ValidateFrom(c, i + 1, line, stack, errors)

_validateTemplateStructure(c) == ValidateFrom(c, 0, 1, <<>>, <<>>)

(***************************************************************************)
(* Inputs of the validator: concatenations of at most MaxValidatePieces    *)
(* pieces: well-formed tags of two names, tags without a closing bracket,  *)
(* a tag with an empty name, a tag with a character a name may not have,   *)
(* text and a line end.                                                    *)
(***************************************************************************)
MaxValidatePieces == 3

ValidatePieces ==
    { OpenTag(<<"a">>), CloseTag(<<"a">>), OpenTag(<<"b">>), CloseTag(<<"b">>),
      <<"[", "!", "a">>, <<"[", "~", "b">>, OpenTag(<<" ">>), CloseTag(<<"{">>),
      <<"t">>, <<"\n">> }

ValidateInputs == {Concat(ps) : ps \in SeqsUpTo(ValidatePieces, MaxValidatePieces)}

ValidateInit == valContent \in ValidateInputs /\ valErrors = <<>> /\ valPc = "start"

ValidateIdle == valContent = <<>> /\ valErrors = <<>> /\ valPc = "idle"

ValidateTemplateStructure ==
    /\ valPc = "start"
    /\ valErrors' = _validateTemplateStructure(valContent)
    /\ valPc' = "done"
    /\ UNCHANGED <<valContent, exceptValidate>>

InitValidate == ValidateInit /\ ScanIdle /\ ComposeIdle /\ IncludeIdle /\ RenderIdle /\ TemplateIdle /\ EvalIdle /\ SiteIdle /\ FeaturesLoaded /\ CopyIdle /\ HotIdle /\ NoRequest /\ NoReload

NextValidate == ValidateTemplateStructure

SpecValidate == InitValidate /\ [][NextValidate]_vars

(***************************************************************************)
(* Nested conditionals: level d of a nesting reads                         *)
(*   {{if c}} T_d [inner] U_d [ {{else}} E_d [inner] F_d ] {{endif}}       *)
(* with the inner conditional in the branch the level names.  Conditions   *)
(* are the registry's variables t (true) and f (false).                    *)
(***************************************************************************)
MaxDepth == 3

LevelNames == <<"1", "2", "3", "4", "5">>

NestText(letter, d) == Tok("text", <<>>, <<>>, <<letter, LevelNames[d]>>)

NestLevels ==
    { [c |-> c, else |-> e, inElse |-> ie] :
        c \in {<<"t">>, <<"f">>}, e \in BOOLEAN, ie \in BOOLEAN } \ { l \in
      [c : {<<"t">>, <<"f">>}, else : BOOLEAN, inElse : BOOLEAN] : l.inElse /\ ~l.else }

Nestings == SeqsUpTo(NestLevels, MaxDepth) \ {<<>>}

\* the template text of a nesting, outermost level first
RECURSIVE RenderNest(_, _)
RenderNest(n, d) ==
    IF n = <<>> THEN <<>>
    ELSE LET h == Head(n)
             inner == RenderNest(Tail(n), d + 1)
         IN  <<If(h.c), NestText("T", d)>> \o (IF h.inElse THEN <<>> ELSE inner) \o <<NestText("U", d)>>
             \o (IF h.else
                 THEN <<Else, NestText("E", d)>> \o (IF h.inElse THEN inner ELSE <<>>) \o <<NestText("F", d)>>
                 ELSE <<>>)
             \o <<EndIf>>

NestedTemplates == {RenderNest(n, 1) : n \in Nestings}

NestedInit == TemplateInit(NestedTemplates)

InitNested == NestedInit /\ ScanIdle /\ ComposeIdle /\ IncludeIdle /\ RenderIdle /\ EvalIdle /\ ValidateIdle /\ SiteIdle /\ FeaturesLoaded /\ CopyIdle /\ HotIdle /\ NoRequest /\ NoReload

NextNested == ProcessConditionals

SpecNested == InitNested /\ [][NextNested]_vars

(***************************************************************************)
(* 12. The page middleware of the dev server and compile/compileAllTemplates *)
(*                                                                         *)
(* The files of the site are text in characters: a directive               *)
(* `[include name]` is the atoms "[", "include", " ", the name, "]", a     *)
(* {{...}} tag is one atom.  The calls are the engine's functions as       *)
(* operators on this text.                                                 *)
(***************************************************************************)
QuoteChars == {"\"", "'"}

\* content.matchAll(includeRegex) on characters: the quoted alternative is
\* tried first and consumes its match; the name of the plain alternative
\* runs lazily, over at least one character, up to a `]`
RECURSIVE IncludeMatchesFrom(_, _)
IncludeMatchesFrom(c, i) ==
    IF i >= Len(c) THEN <<>>
    ELSE LET close == IndexOf(c, <<"]">>, i + 4)
         IN  IF c[i + 1] \in QuoteChars /\ StartsWithAt(c, <<"[", "include", " ">>, i + 1)
                /\ IndexOf(c, <<"]">>, i + 4) > i + 4
                /\ IndexOf(c, <<"]">>, i + 4) + 1 < Len(c)
                /\ c[IndexOf(c, <<"]">>, i + 4) + 2] \in QuoteChars
             THEN IncludeMatchesFrom(c, IndexOf(c, <<"]">>, i + 4) + 2)
             ELSE IF StartsWithAt(c, <<"[", "include", " ">>, i) /\ close # -1
             THEN <<[index |-> i, length |-> close + 1 - i,
                     fileName |-> Segments(Trim(Slice(c, i + 3, close)))]>>
                  \o IncludeMatchesFrom(c, close + 1)
             ELSE IncludeMatchesFrom(c, i + 1)

\* processIncludes(content, currentFile, inclusionStack) on the directory
\* disk: the text returned and the root-relative paths of the files read
RECURSIVE processIncludes(_, _, _, _)
RECURSIVE IncludeParts(_, _, _, _, _, _)
IncludeParts(disk, c, currentFile, inclusionStack, sortedMatches, lastIndex) ==
    IF sortedMatches = <<>> THEN [parts |-> <<Slice(c, 0, lastIndex)>>, files |-> {}]
    ELSE LET m == Head(sortedMatches)
             tail == Slice(c, m.index + m.length, lastIndex)
             includePath == IncludePath(currentFile, m.fileName)
             relativeIncludePath == PathRelative(templatesAbsDir, includePath)
             skipped == ~_isSafePath(includePath, templatesAbsDir)
                        \/ OnInclusionStack(inclusionStack, includePath)
                        \/ relativeIncludePath = currentFile
                        \/ includePath \notin DOMAIN disk
             included == processIncludes(disk, disk[includePath], relativeIncludePath,
                                         inclusionStack \cup {includePath})
             rest == IncludeParts(disk, c, currentFile, inclusionStack, Tail(sortedMatches), m.index)
         IN  IF skipped
             THEN [parts |-> <<tail, <<>>>> \o rest.parts, files |-> rest.files]
             ELSE [parts |-> <<tail, included.text>> \o rest.parts,
                   files |-> {relativeIncludePath} \cup included.files \cup rest.files]

processIncludes(disk, c, currentFile, inclusionStack) ==
    LET matches == IncludeMatchesFrom(c, 0)
        assembled == IncludeParts(disk, c, currentFile, inclusionStack, Reverse(matches), Len(c))
    IN  IF matches = <<>> THEN [text |-> c, files |-> {}]
        ELSE [text |-> Concat(Reverse(assembled.parts)), files |-> assembled.files]

\* the template as it is on disk, not composed
MutRenderTemplate(disk, file) ==
    [threw |-> FALSE, text |-> disk[PathJoin(templatesAbsDir, file)]]

\* renderTemplate(templateFile) on the directory disk
renderTemplate(disk, file) ==
    LET templatePath == PathJoin(templatesAbsDir, file)
        extendsMatch == ExtendsMatch(disk[templatePath])
        remainingContent == Slice(disk[templatePath], extendsMatch.length, Len(disk[templatePath]))
        composed == IF ~extendsMatch.found THEN _renderTemplateContent(disk[templatePath], <<>>)
                    ELSE IF BasePathOf(file, extendsMatch.name) \notin DOMAIN disk THEN Thrown
                    ELSE _renderTemplateContent(disk[BasePathOf(file, extendsMatch.name)], remainingContent)
    IN  [threw |-> composed = Thrown, text |-> IF composed = Thrown THEN <<>> ELSE composed]

\* the {{...}} tags of the site's files, as the engine reads them
TagAtoms == ("{{g}}" :> Expr(<<"g">>)) @@ ("{{currentUrl}}" :> Expr(<<"currentUrl">>))

Tokens(text) ==
    [i \in 1..Len(text) |-> IF text[i] \in DOMAIN TagAtoms THEN TagAtoms[text[i]] ELSE Text(text[i])]

SiteIndex == <<"index.html">>

SiteFragment == <<"frag.html">>

SiteAbout == <<"about.html">>

\* { currentUrl, query } of a request for file
RequestVariables(file) ==
    (<<"currentUrl">> :> Str(IF file = SiteIndex THEN "/index.html"
                             ELSE IF file = SiteAbout THEN "/about.html" ELSE "/frag.html"))
    @@ (<<"query">> :> Str(""))

\* { currentUrl, query: {} } of compile
CompileVariables(file) ==
    (<<"currentUrl">> :> Str(IF file = SiteIndex THEN "/index.html"
                             ELSE IF file = SiteAbout THEN "/about.html" ELSE "/frag.html"))
    @@ (<<"query">> :> Obj("{}", <<>>))

(***************************************************************************)
(* Inputs of the site: index.html of at most MaxSitePieces pieces, with or *)
(* without an [extends base.html] line; frag.html as text, with block      *)
(* markers of its own, including the page back, or with a marker that      *)
(* lacks its bracket; about.html including the fragment; base.html.        *)
(***************************************************************************)
MaxSitePieces == 2

IncludeDirective(name) == <<"[", "include", " ", name, "]">>

IndexPieces ==
    { <<"t">>, IncludeDirective("frag.html"), Block(<<"main">>, <<"P">>), <<"{{g}}">> }

IndexContents ==
    { head \o Concat(ps) :
        head \in {<<>>, ExtendsLine("extends", <<"base.html">>, <<>>)},
        ps \in SeqsUpTo(IndexPieces, MaxSitePieces) }

FragmentContents ==
    { <<"F">>, Block(<<"side">>, <<"S">>), <<"F">> \o IncludeDirective("index.html"),
      <<"[", "!", "x">> }

AboutContent == <<"A">> \o IncludeDirective("frag.html")

SiteBase == Block(<<"main">>, <<"B">>) \o <<"t">>

SiteDisks ==
    { [p \in {Abs(SiteIndex), Abs(SiteFragment), Abs(<<"base.html">>)} \cup about |->
         IF p = Abs(SiteIndex) THEN index
         ELSE IF p = Abs(SiteFragment) THEN fragment
         ELSE IF p = Abs(SiteAbout) THEN AboutContent
         ELSE SiteBase] :
      index \in IndexContents, fragment \in FragmentContents,
      about \in {{}, {Abs(SiteAbout)}} }

\* getAvailableTemplates(): the .html files of the directory other than
\* base.html, in the order readdir lists them
TemplateLists(disk) ==
    LET files == {f \in {SiteIndex, SiteFragment, SiteAbout} : Abs(f) \in DOMAIN disk}
    IN  {s \in SeqsUpTo(files, Cardinality(files)) :
            Len(s) = Cardinality(files) /\ \A f \in files : \E i \in 1..Len(s) : s[i] = f}

SiteInit ==
    /\ siteDisk \in SiteDisks
    /\ cachedPages \in TemplateLists(siteDisk)
    /\ siteTemplate = <<>>
    /\ pageIndex = 0
    /\ siteRendered = <<>>
    /\ siteDocument = <<>>
    /\ stagesRun = <<>>
    /\ dist = {}
    /\ sitePc = "start"

\* the registry after a call of processIncludes that read the given files
Registered(files) == IF isCompilationMode THEN includedFiles \cup files ELSE includedFiles

\* the middleware: rendered = await renderTemplate(templateFile) for a page
\* of cachedPages; an error is logged by the catch
RequestRender ==
    /\ sitePc = "start"
    /\ \E file \in {cachedPages[i] : i \in 1..Len(cachedPages)} :
          /\ siteTemplate' = file
          /\ LET r == renderTemplate(siteDisk, file)
             IN  IF r.threw
                 THEN /\ sitePc' = "failed"
                      /\ UNCHANGED <<siteRendered, stagesRun>>
                 ELSE /\ siteRendered' = r.text
                      /\ stagesRun' = <<"compose">>
                      /\ sitePc' = "requestRendered"
    /\ UNCHANGED <<siteDisk, cachedPages, pageIndex, siteDocument, dist, exceptSite>>

\* rendered = await processIncludes(rendered, templateFile)
RequestIncludes ==
    /\ sitePc = "requestRendered"
    /\ LET r == processIncludes(siteDisk, siteRendered, siteTemplate, {})
       IN  /\ siteRendered' = r.text
           /\ includedFiles' = Registered(r.files)
    /\ stagesRun' = Append(stagesRun, "include")
    /\ sitePc' = "requestIncluded"
    /\ UNCHANGED <<siteDisk, cachedPages, siteTemplate, pageIndex, siteDocument, dist,
                   isCompilationMode, exceptSiteAndRegistry>>

\* rendered = processVariables(rendered, { currentUrl, query }) and send
RequestVariablesAndSend ==
    /\ sitePc = "requestIncluded"
    /\ siteDocument' = processVariables(Tokens(siteRendered), RequestVariables(siteTemplate))
    /\ stagesRun' = Append(stagesRun, "variables")
    /\ sitePc' = "sent"
    /\ UNCHANGED <<siteDisk, cachedPages, siteTemplate, pageIndex, siteRendered, dist, exceptSite>>

\* some template of the list fails validateTemplateFile(file)
SomeTemplateInvalid ==
    \E i \in 1..Len(cachedPages) : _validateTemplateStructure(siteDisk[Abs(cachedPages[i])]) # <<>>

\* the start of compileAllTemplates with a catch that leaves the mode on and
\* a dist that is removed before the templates are validated
MutCompileAllTemplates ==
    /\ sitePc = "start"
    /\ includedFiles' = {}
    /\ isCompilationMode' = TRUE
    /\ IF SomeTemplateInvalid
       THEN sitePc' = "failed" /\ UNCHANGED pageIndex
       ELSE sitePc' = "compile" /\ pageIndex' = 1
    /\ dist' = {}
    /\ UNCHANGED <<siteDisk, cachedPages, siteTemplate, siteRendered, siteDocument, stagesRun,
                   exceptSiteAndRegistry>>

\* compileAllTemplates: setCompilationMode(true), the templates are listed
\* and validated (an error leaves through the catch, which restores the
\* mode and leaves dist as it is), else dist is removed and made anew
CompileAllTemplates ==
    /\ sitePc = "start"
    /\ includedFiles' = {}
    /\ IF SomeTemplateInvalid
       THEN /\ isCompilationMode' = FALSE
            /\ sitePc' = "failed"
            /\ UNCHANGED <<pageIndex, dist>>
       ELSE /\ isCompilationMode' = TRUE
            /\ sitePc' = "compile"
            /\ pageIndex' = 1
            /\ dist' = {}
    /\ UNCHANGED <<siteDisk, cachedPages, siteTemplate, siteRendered, siteDocument, stagesRun,
                   exceptSiteAndRegistry>>

\* compile: rendered = await renderTemplate(templateFile) for the next
\* template; an error is logged and the loop goes on
CompileRender ==
    /\ sitePc = "compile"
    /\ pageIndex <= Len(cachedPages)
    /\ siteTemplate' = cachedPages[pageIndex]
    /\ LET r == renderTemplate(siteDisk, cachedPages[pageIndex])
       IN  IF r.threw
           THEN /\ pageIndex' = pageIndex + 1
                /\ UNCHANGED <<siteRendered, stagesRun, sitePc>>
           ELSE /\ siteRendered' = r.text
                /\ stagesRun' = <<"compose">>
                /\ sitePc' = "compileRendered"
                /\ UNCHANGED pageIndex
    /\ UNCHANGED <<siteDisk, cachedPages, siteDocument, dist, exceptSite>>

\* rendered = await processIncludes(rendered, templateFile)
CompileIncludes ==
    /\ sitePc = "compileRendered"
    /\ LET r == processIncludes(siteDisk, siteRendered, siteTemplate, {})
       IN  /\ siteRendered' = r.text
           /\ includedFiles' = Registered(r.files)
    /\ stagesRun' = Append(stagesRun, "include")
    /\ sitePc' = "compileIncluded"
    /\ UNCHANGED <<siteDisk, cachedPages, siteTemplate, pageIndex, siteDocument, dist,
                   isCompilationMode, exceptSiteAndRegistry>>

\* rendered = processVariables(rendered, { currentUrl, query: {} })
CompileProcessVariables ==
    /\ sitePc = "compileIncluded"
    /\ siteDocument' = processVariables(Tokens(siteRendered), CompileVariables(siteTemplate))
    /\ stagesRun' = Append(stagesRun, "variables")
    /\ sitePc' = "compileProcessed"
    /\ UNCHANGED <<siteDisk, cachedPages, siteTemplate, pageIndex, siteRendered, dist, exceptSite>>

\* if (includedFiles.has(templateFile)) continue
CompileSkip ==
    /\ sitePc = "compileProcessed"
    /\ siteTemplate \in includedFiles
    /\ pageIndex' = pageIndex + 1
    /\ sitePc' = "compile"
    /\ UNCHANGED <<siteDisk, cachedPages, siteTemplate, siteRendered, siteDocument, stagesRun, dist,
                   exceptSite>>

\* await writeFile(outputPath, rendered)
CompileWrite ==
    /\ sitePc = "compileProcessed"
    /\ siteTemplate \notin includedFiles
    /\ dist' = dist \cup {siteTemplate}
    /\ pageIndex' = pageIndex + 1
    /\ sitePc' = "compile"
    /\ UNCHANGED <<siteDisk, cachedPages, siteTemplate, siteRendered, siteDocument, stagesRun,
                   exceptSite>>

\* compile returns, the assets are copied, setCompilationMode(false)
CompileFinish ==
    /\ sitePc = "compile"
    /\ pageIndex > Len(cachedPages)
    /\ isCompilationMode' = FALSE
    /\ sitePc' = "compiled"
    /\ UNCHANGED <<siteDisk, cachedPages, siteTemplate, pageIndex, siteRendered, siteDocument,
                   stagesRun, dist, includedFiles, exceptSiteAndRegistry>>

(***************************************************************************)
(* The page middleware (src/dev-server.js:195-217 and the same handler in  *)
(* src/unnamed/part_002:181-204, which differ in the catch).               *)
(***************************************************************************)
middlewares == {"dev-server.js", "part_002"}

\* req.path: the root, a page with and without .html, a page with an
\* escaped letter, a path that is no page, a truncated escape
RequestPaths ==
    { <<"/">>, <<"/", "index.html">>, <<"/", "index">>, <<"/", "%61bout.html">>, <<"/", "nope">>,
      <<"/", "%E0">> }

Escapes == "%61bout.html" :> "about.html"

\* decodeURIComponent(req.path): throws a URIError on a truncated escape
decodeURIComponent(p) ==
    IF \E i \in 1..Len(p) : p[i] = "%E0" THEN Thrown
    ELSE [i \in 1..Len(p) |-> IF p[i] \in DOMAIN Escapes THEN Escapes[p[i]] ELSE p[i]]

HtmlNames == {"index.html", "about.html", "frag.html"}

WithHtml == ("index" :> "index.html") @@ ("nope" :> "nope.html")

\* decodedPath.endsWith('.html') ? decodedPath.slice(1) : decodedPath.slice(1) + '.html'
TemplateFileOf(decodedPath) ==
    LET rest == Tail(decodedPath)
    IN  IF rest[Len(rest)] \in HtmlNames THEN rest
        ELSE [rest EXCEPT ![Len(rest)] = WithHtml[rest[Len(rest)]]]

CurrentUrl == ("index.html" :> "/index.html") @@ ("index" :> "/index") @@ ("about.html" :> "/about.html")

\* { currentUrl: decodedPath, query } of the middleware
PageVariables(decodedPath) ==
    (<<"currentUrl">> :> Str(CurrentUrl[decodedPath[2]])) @@ (<<"query">> :> Str("{}"))

\* the catch of the middleware: both log; part_002 then answers 500 where
\* no header is sent yet
Caught == IF middleware = "part_002" THEN "500" ELSE "none"

\* the handler up to the first await of a render: the path is decoded, the
\* root is redirected to the entry file, a path that is no cached page is
\* passed on with next()
PageRoute ==
    /\ sitePc = "start"
    /\ response = "none"
    /\ LET decodedPath == decodeURIComponent(reqPath)
       IN  IF decodedPath = Thrown
           THEN /\ response' = Caught
                /\ sitePc' = "failed"
                /\ UNCHANGED siteTemplate
           ELSE IF decodedPath = <<"/">>
           THEN /\ response' = "redirect"
                /\ sitePc' = "sent"
                /\ UNCHANGED siteTemplate
           ELSE IF \E i \in 1..Len(cachedPages) : cachedPages[i] = TemplateFileOf(decodedPath)
           THEN /\ siteTemplate' = TemplateFileOf(decodedPath)
                /\ sitePc' = "routed"
                /\ UNCHANGED response
           ELSE /\ response' = "next"
                /\ sitePc' = "sent"
                /\ UNCHANGED siteTemplate
    /\ UNCHANGED <<reqPath, middleware, siteDisk, cachedPages, pageIndex, siteRendered, siteDocument,
                   stagesRun, dist, exceptSiteAndReq>>

\* rendered = await renderTemplate(templateFile); an error goes to the catch
PageRender ==
    /\ sitePc = "routed"
    /\ LET r == renderTemplate(siteDisk, siteTemplate)
       IN  IF r.threw
           THEN /\ response' = Caught
                /\ sitePc' = "failed"
                /\ UNCHANGED <<siteRendered, stagesRun>>
           ELSE /\ siteRendered' = r.text
                /\ stagesRun' = <<"compose">>
                /\ sitePc' = "requestRendered"
                /\ UNCHANGED response
    /\ UNCHANGED <<reqPath, middleware, siteDisk, cachedPages, siteTemplate, pageIndex, siteDocument,
                   dist, exceptSiteAndReq>>

\* rendered = processVariables(rendered, { currentUrl, query }) and
\* res.type('html').send(rendered)
PageSend ==
    /\ sitePc = "requestIncluded"
    /\ reqPath # <<>>
    /\ siteDocument' = processVariables(Tokens(siteRendered), PageVariables(decodeURIComponent(reqPath)))
    /\ stagesRun' = Append(stagesRun, "variables")
    /\ response' = "page"
    /\ sitePc' = "sent"
    /\ UNCHANGED <<reqPath, middleware, siteDisk, cachedPages, siteTemplate, pageIndex, siteRendered,
                   dist, exceptSiteAndReq>>

PageIndexContents ==
    { <<"t">>, <<"{{currentUrl}}">>, ExtendsLine("extends", <<"base.html">>, <<>>) \o Block(<<"main">>, <<"P">>),
      ExtendsLine("extends", <<"base.html">>, <<>>) \o IncludeDirective("frag.html") }

\* the templates directory, with and without the base file
PageDisks ==
    { [p \in {Abs(SiteIndex), Abs(SiteFragment), Abs(SiteAbout)} \cup base |->
         IF p = Abs(SiteIndex) THEN index
         ELSE IF p = Abs(SiteFragment) THEN fragment
         ELSE IF p = Abs(SiteAbout) THEN about
         ELSE SiteBase] :
      index \in PageIndexContents, fragment \in {<<"F">>, Block(<<"side">>, <<"S">>)},
      about \in {AboutContent, ExtendsLine("extends", <<"base.html">>, <<>>) \o <<"A">>},
      base \in {{}, {Abs(<<"base.html">>)}} }

PageInit ==
    /\ siteDisk \in PageDisks
    /\ cachedPages = <<SiteAbout, SiteFragment, SiteIndex>>
    /\ siteTemplate = <<>> /\ pageIndex = 0 /\ siteRendered = <<>> /\ siteDocument = <<>>
    /\ stagesRun = <<>> /\ dist = {} /\ sitePc = "start"
    /\ reqPath \in RequestPaths
    /\ response = "none"
    /\ middleware \in middlewares

InitPage == PageInit /\ ScanIdle /\ ComposeIdle /\ IncludeIdle /\ RenderIdle /\ TemplateIdle /\ EvalIdle /\ ValidateIdle /\ FeaturesLoaded /\ CopyIdle /\ HotIdle /\ NoReload

NextPage == PageRoute \/ PageRender \/ RequestIncludes \/ PageSend

SpecPage == InitPage /\ [][NextPage]_vars

\* what every step of the handler does to its position
PageAdvances ==
    \/ sitePc = "start" /\ sitePc' \in {"failed", "sent", "routed"}
    \/ sitePc = "routed" /\ sitePc' \in {"failed", "requestRendered"}
    \/ sitePc = "requestRendered" /\ sitePc' = "requestIncluded"
    \/ sitePc = "requestIncluded" /\ sitePc' = "sent"

\* the reads settle and the event loop resumes the handler: a step that
\* advances its position is taken whenever one is possible
FairPage == SpecPage /\ WF_sitePc(PageAdvances)

\* the output directory of an earlier build, or none
OldDists == { {}, {SiteIndex, <<"old.html">>} }

\* a build over a project that may have been built before
RebuildInit ==
    /\ siteDisk \in {d \in SiteDisks : Abs(SiteAbout) \notin DOMAIN d}
    /\ cachedPages \in TemplateLists(siteDisk)
    /\ siteTemplate = <<>> /\ pageIndex = 0 /\ siteRendered = <<>> /\ siteDocument = <<>>
    /\ stagesRun = <<>>
    /\ dist \in OldDists
    /\ sitePc = "start"

InitRebuild == RebuildInit /\ ScanIdle /\ ComposeIdle /\ IncludeIdle /\ RenderIdle /\ TemplateIdle /\ EvalIdle /\ ValidateIdle /\ FeaturesLoaded /\ CopyIdle /\ HotIdle /\ NoRequest /\ NoReload

InitSite == SiteInit /\ ScanIdle /\ ComposeIdle /\ IncludeIdle /\ RenderIdle /\ TemplateIdle /\ EvalIdle /\ ValidateIdle /\ FeaturesLoaded /\ CopyIdle /\ HotIdle /\ NoRequest /\ NoReload

NextRequest == RequestRender \/ RequestIncludes \/ RequestVariablesAndSend

\* a request for a page of the dev server
SpecRequest == InitSite /\ [][NextRequest]_vars

NextCompile ==
    \/ CompileAllTemplates
    \/ CompileRender
    \/ CompileIncludes
    \/ CompileProcessVariables
    \/ CompileSkip
    \/ CompileWrite
    \/ CompileFinish

\* a run of compileAllTemplates over what an earlier build left
SpecRebuild == InitRebuild /\ [][NextCompile]_vars

\* a run of compileAllTemplates
SpecCompile == InitSite /\ [][NextCompile]_vars

(***************************************************************************)
(* Inputs of the compositor with {{...}} tags, in characters: a plain      *)
(* variable, and expressions that index with a negation and with a         *)
(* bitwise complement.                                                     *)
(***************************************************************************)
MaxTagPieces == 3

TagG == <<"{{", "g", "}}">>

TagIndexNot == <<"{{", "a", "[", "!", "b", "]", "}}">>

TagIndexComplement == <<"{{", "a", "[", "~", "b", "]", "}}">>

TagTexts == {TagG, TagIndexNot, TagIndexComplement}

TagBasePieces == { Block(<<"a">>, <<"p">>), Block(<<"b">>, <<"q">>), <<"t">> } \cup TagTexts

TagChildPieces == { Block(<<"a">>, <<"1">> \o T) : T \in TagTexts } \cup { Block(<<"b">>, <<"3">>) }

TagComposeInit ==
    /\ baseContent \in {Concat(ps) : ps \in SeqsUpTo(TagBasePieces, MaxTagPieces)}
    /\ templateContent \in {Concat(ps) : ps \in SeqsUpTo(TagChildPieces, 1)}
    /\ finalHtml = <<>>
    /\ composePc = "start"

InitComposeTags == TagComposeInit /\ ScanIdle /\ IncludeIdle /\ RenderIdle /\ TemplateIdle /\ EvalIdle /\ ValidateIdle /\ SiteIdle /\ FeaturesLoaded /\ CopyIdle /\ HotIdle /\ NoRequest /\ NoReload

NextComposeTags == RenderTemplateContent

SpecComposeTags == InitComposeTags /\ [][NextComposeTags]_vars

(***************************************************************************)
(* The dependency registry over a sequence of calls: setCompilationMode    *)
(* at any moment, processIncludes again once the last call has returned.   *)
(***************************************************************************)
\* the flag and the registry as a call without the clear leaves them
MutSetCompilationMode(mode) ==
    [isCompilationMode |-> mode, includedFiles |-> includedFiles]

\* isCompilationMode = mode; if (mode) includedFiles.clear()
setCompilationMode(mode) ==
    [isCompilationMode |-> mode, includedFiles |-> IF mode THEN {} ELSE includedFiles]

SetCompilationMode ==
    /\ \E mode \in BOOLEAN :
          /\ isCompilationMode' = setCompilationMode(mode).isCompilationMode
          /\ includedFiles' = setCompilationMode(mode).includedFiles
    /\ UNCHANGED <<fs, frames, incResult, incPc, reads, exceptInclude>>

\* processIncludes(rendered, templateFile) for a page, at first or after the
\* call before it has returned
ProcessIncludesAgain ==
    /\ incPc \in {"start", "done"}
    /\ \E disk \in FairFileSystems :
          /\ fs' = disk
          /\ frames' = <<NewFrame(disk[Abs(FileA)], FileA, {})>>
    /\ incPc' = "running"
    /\ incResult' = <<>>
    /\ reads' = {}
    /\ UNCHANGED <<includedFiles, isCompilationMode, exceptInclude>>

RegistryInit ==
    /\ fs = <<>>
    /\ frames = <<>>
    /\ incResult = <<>>
    /\ incPc = "start"
    /\ reads = {}
    /\ includedFiles = {}
    /\ isCompilationMode = FALSE

InitRegistry == RegistryInit /\ ScanIdle /\ ComposeIdle /\ RenderIdle /\ TemplateIdle /\ EvalIdle /\ ValidateIdle /\ SiteIdle /\ FeaturesLoaded /\ CopyIdle /\ HotIdle /\ NoRequest /\ NoReload

InitScan == ScanInit /\ ComposeIdle /\ IncludeIdle /\ RenderIdle /\ TemplateIdle /\ EvalIdle /\ ValidateIdle /\ SiteIdle /\ FeaturesLoaded /\ CopyIdle /\ HotIdle /\ NoRequest /\ NoReload

NextScan == FindBlockPositions

SpecScan == InitScan /\ [][NextScan]_vars

InitCompose == ComposeInit /\ ScanIdle /\ IncludeIdle /\ RenderIdle /\ TemplateIdle /\ EvalIdle /\ ValidateIdle /\ SiteIdle /\ FeaturesLoaded /\ CopyIdle /\ HotIdle /\ NoRequest /\ NoReload

NextCompose == RenderTemplateContent

SpecCompose == InitCompose /\ [][NextCompose]_vars

InitInclude == IncludeInit /\ ScanIdle /\ ComposeIdle /\ RenderIdle /\ TemplateIdle /\ EvalIdle /\ ValidateIdle /\ SiteIdle /\ FeaturesLoaded /\ CopyIdle /\ HotIdle /\ NoRequest /\ NoReload

IncludeStep ==
    \/ IncludeUnsafe
    \/ IncludeCycle
    \/ IncludeSelf
    \/ IncludeReadFails
    \/ IncludeRecurse
    \/ IncludeReturn

NextInclude == ProcessIncludes \/ IncludeStep

SpecInclude == InitInclude /\ [][NextInclude]_vars

NextIncludeFair == ProcessIncludesFair \/ IncludeStep

\* the call is made, and every await of it is eventually resumed
FairInclude == InitInclude /\ [][NextIncludeFair]_vars /\ WF_vars(NextIncludeFair)

NextRegistry == SetCompilationMode \/ ProcessIncludesAgain \/ IncludeStep

SpecRegistry == InitRegistry /\ [][NextRegistry]_vars

InitRender == RenderInit /\ ScanIdle /\ ComposeIdle /\ IncludeIdle /\ TemplateIdle /\ EvalIdle /\ ValidateIdle /\ SiteIdle /\ FeaturesLoaded /\ CopyIdle /\ HotIdle /\ NoRequest /\ NoReload

NextRender == RenderReadTemplate \/ RenderBaseMissing \/ RenderCompose

SpecRender == InitRender /\ [][NextRender]_vars

InitLoops == LoopsInit /\ ScanIdle /\ ComposeIdle /\ IncludeIdle /\ RenderIdle /\ EvalIdle /\ ValidateIdle /\ SiteIdle /\ FeaturesLoaded /\ CopyIdle /\ HotIdle /\ NoRequest /\ NoReload

NextLoops == ProcessLoops

SpecLoops == InitLoops /\ [][NextLoops]_vars

InitConditionals == ConditionalsInit /\ ScanIdle /\ ComposeIdle /\ IncludeIdle /\ RenderIdle /\ EvalIdle /\ ValidateIdle /\ SiteIdle /\ FeaturesLoaded /\ CopyIdle /\ HotIdle /\ NoRequest /\ NoReload

NextConditionals == ProcessConditionals

SpecConditionals == InitConditionals /\ [][NextConditionals]_vars

InitCalls == CallsInit /\ ScanIdle /\ ComposeIdle /\ IncludeIdle /\ RenderIdle /\ EvalIdle /\ ValidateIdle /\ SiteIdle /\ FeaturesLoaded /\ CopyIdle /\ HotIdle /\ NoRequest /\ NoReload

NextCalls == ProcessUserFunctions

SpecCalls == InitCalls /\ [][NextCalls]_vars

InitFeatures == FeaturesInit /\ ScanIdle /\ ComposeIdle /\ IncludeIdle /\ RenderIdle /\ TemplateIdle /\ EvalIdle /\ ValidateIdle /\ SiteIdle /\ CopyIdle /\ HotIdle /\ NoRequest /\ NoReload

NextFeatures == ProcessVariablesAgain

SpecFeatures == InitFeatures /\ [][NextFeatures]_vars

InitControlled == ControlledInit /\ ScanIdle /\ ComposeIdle /\ IncludeIdle /\ RenderIdle /\ TemplateIdle /\ EvalIdle /\ ValidateIdle /\ SiteIdle /\ CopyIdle /\ HotIdle /\ NoRequest /\ NoReload

NextControlled == ProcessVariablesAgain

SpecControlled == InitControlled /\ [][NextControlled]_vars

InitCopy == CopyInit /\ ScanIdle /\ ComposeIdle /\ IncludeIdle /\ RenderIdle /\ TemplateIdle /\ EvalIdle /\ ValidateIdle /\ SiteIdle /\ FeaturesLoaded /\ HotIdle /\ NoRequest /\ NoReload

NextCopy == RunCopyFiles \/ CopyDirectory \/ CopyFile \/ CopyFinish

SpecCopy == InitCopy /\ [][NextCopy]_vars

InitBare == BareInit /\ ScanIdle /\ ComposeIdle /\ IncludeIdle /\ RenderIdle /\ EvalIdle /\ ValidateIdle /\ SiteIdle /\ FeaturesLoaded /\ CopyIdle /\ HotIdle /\ NoRequest /\ NoReload

NextBare == ProcessVariablesAndExpressions

SpecBare == InitBare /\ [][NextBare]_vars

InitHot == HotInit /\ ScanIdle /\ ComposeIdle /\ IncludeIdle /\ RenderIdle /\ TemplateIdle /\ EvalIdle /\ ValidateIdle /\ FeaturesLoaded /\ CopyIdle /\ NoRequest /\ NoReload

NextHot == TrackWrite \/ ShiftIgnored \/ HandleFileEvent

SpecHot == InitHot /\ [][NextHot]_vars

InitReload == ReloadInit /\ ScanIdle /\ ComposeIdle /\ IncludeIdle /\ RenderIdle /\ TemplateIdle /\ EvalIdle /\ ValidateIdle /\ SiteIdle /\ CopyIdle /\ HotIdle /\ NoRequest

NextReload ==
    \/ LoadUserFeaturesAccess
    \/ LoadUserFeaturesReset
    \/ LoadUserFeaturesFiles
    \/ ProcessVariablesReloading

SpecReload == InitReload /\ [][NextReload]_vars

InitEval == EvalInit /\ ScanIdle /\ ComposeIdle /\ IncludeIdle /\ RenderIdle /\ TemplateIdle /\ ValidateIdle /\ SiteIdle /\ FeaturesLoaded /\ CopyIdle /\ HotIdle /\ NoRequest /\ NoReload

NextEval == EvaluateExpression

SpecEval == InitEval /\ [][NextEval]_vars

InitVariables == VariablesInit /\ ScanIdle /\ ComposeIdle /\ IncludeIdle /\ RenderIdle /\ EvalIdle /\ ValidateIdle /\ SiteIdle /\ FeaturesLoaded /\ CopyIdle /\ HotIdle /\ NoRequest /\ NoReload

NextVariables == ProcessVariablesCall \/ RunPhase \/ NextPass \/ ReturnResult

SpecVariables == InitVariables /\ [][NextVariables]_vars

NextPasses == ProcessVariablesSettling \/ RunPhase \/ NextPass \/ ReturnResult

\* what every step of the call does to its position: the call is entered, the
\* next handler of the pass is applied, or the while test is taken
PassAdvances ==
    \/ tplPc = "start" /\ tplPc' = "pass" /\ phase' = 0
    \/ tplPc = "pass" /\ phase < 4 /\ tplPc' = "pass" /\ phase' = phase + 1
    \/ tplPc = "pass" /\ phase = 4 /\ tplPc' = "pass" /\ phase' = 0
    \/ tplPc = "pass" /\ phase = 4 /\ tplPc' = "done" /\ phase' = 4

\* the call is synchronous: once entered it runs to its return, so a step
\* that advances its position is taken whenever one is possible
FairPasses == InitVariables /\ [][NextPasses]_vars /\ WF_<<tplPc, phase>>(PassAdvances)

(***************************************************************************)
(* The scanner as the specification describes it (locateBlocks): a linear  *)
(* scan that records, for each open tag it meets, the span up to the next  *)
(* same-named close tag, and never throws.                                 *)
(***************************************************************************)
RECURSIVE LocateFrom(_, _, _)
LocateFrom(c, index, bl) ==
    LET startIndex == IndexOf(c, <<"[", "!">>, index)
        openEndIndex == IF startIndex = -1 THEN -1 ELSE IndexOf(c, <<"]">>, startIndex + 2)
    IN  IF index >= Len(c) \/ startIndex = -1 \/ openEndIndex = -1 THEN bl
        ELSE LET name == Trim(Slice(c, startIndex + 2, openEndIndex))
                 closeAt == IndexOf(c, CloseTag(name), openEndIndex + 1)
             IN  IF closeAt = -1 THEN LocateFrom(c, openEndIndex + 1, bl)
                 ELSE LocateFrom(c, closeAt + Len(name) + 3,
                                 PushBlock(bl, name,
                                           [startIndex |-> startIndex,
                                            endIndex |-> closeAt + Len(name) + 3,
                                            innerContent |-> Slice(c, openEndIndex + 1, closeAt)]))

locateBlocks(c) == LocateFrom(c, 0, NoBlocks)

\* the positions of the open tags `[!name]` of c
OpenTagPositions(c) ==
    {p \in 0..(Len(c) - 1) : StartsWithAt(c, <<"[", "!">>, p) /\ IndexOf(c, <<"]">>, p + 2) # -1}

OpenEndOf(c, p) == IndexOf(c, <<"]">>, p + 2)

OpenNameOf(c, p) == Trim(Slice(c, p + 2, OpenEndOf(c, p)))

CloseStartOf(c, p) == IndexOf(c, CloseTag(OpenNameOf(c, p)), OpenEndOf(c, p) + 1)

EntriesAt(bl, name, p) ==
    IF name \in DOMAIN bl THEN {i \in 1..Len(bl[name]) : bl[name][i].startIndex = p} ELSE {}

InDocumentOrder(bl) ==
    \A n \in DOMAIN bl : \A i \in 1..(Len(bl[n]) - 1) : bl[n][i].startIndex < bl[n][i + 1].startIndex

\* C9: every open tag `[!name]` that has a following `[~name]` gets exactly one
\* entry under name, whose innerContent is the text up to the first following
\* `[~name]`; an open tag with no following close tag gets none; the entries of
\* a name are in document order.
C9_EveryMatchedOpenTagRecorded ==
    scanPc = "done" =>
        /\ ~blocks.threw
        /\ InDocumentOrder(blocks.blocks)
        /\ \A p \in OpenTagPositions(content) :
              LET name == OpenNameOf(content, p)
                  at == EntriesAt(blocks.blocks, name, p)
              IN  IF CloseStartOf(content, p) = -1 THEN at = {}
                  ELSE /\ Cardinality(at) = 1
                       /\ \A i \in at : blocks.blocks[name][i].innerContent =
                                Slice(content, OpenEndOf(content, p) + 1, CloseStartOf(content, p))

\* C10: _findBlockPositions returns a block map, without throwing, for every
\* content and every block name, names inherited from Object.prototype included.
C10_FindBlockPositionsNeverThrows == scanPc = "done" => ~blocks.threw

\* The merge of C8, built from left to right: the i-th base occurrence of a
\* name gives way to the inner content of the i-th child occurrence of that
\* name when the child has one; everything else of the base is kept.
OccurrenceAt(bl, p) ==
    {<<n, i>> \in UNION {{<<m, k>> : k \in 1..Len(bl[m])} : m \in DOMAIN bl} :
        bl[n][i].startIndex = p}

RECURSIVE MergeFrom(_, _, _, _)
MergeFrom(base, p, baseBl, childBl) ==
    IF p >= Len(base) THEN <<>>
    ELSE LET occ == OccurrenceAt(baseBl, p)
             o == CHOOSE x \in occ : TRUE
         IN  IF occ # {} /\ o[1] \in DOMAIN childBl /\ o[2] <= Len(childBl[o[1]])
             THEN childBl[o[1]][o[2]].innerContent
                      \o MergeFrom(base, baseBl[o[1]][o[2]].endIndex, baseBl, childBl)
             ELSE <<base[p + 1]>> \o MergeFrom(base, p + 1, baseBl, childBl)

ExpectedHtml(base, child) ==
    _ensureDoctypeFirst(_cleanTemplateTags(
        MergeFrom(base, 0, locateBlocks(base), locateBlocks(child))))

\* C8: the output is the base in which, for every block name of the child, the
\* first min(baseCount, childCount) occurrences are replaced by the paired
\* child inner contents, markers stripped and the doctype ensured.
C8_MergeReplacesPairedOccurrences ==
    composePc = "done" => finalHtml = ExpectedHtml(baseContent, templateContent)

(***************************************************************************)
(* Include resolver: claims                                                *)
(***************************************************************************)
\* the files whose expansion is in progress, outermost first
Chain == [i \in 1..Len(frames) |-> PathJoin(templatesAbsDir, frames[i].currentFile)]

\* C2: no file is expanded while it is already on the expansion chain, the
\* top-level file included: with a.html -> sub/b.html -> a.html the directive
\* inside b.html is dropped and a.html is not spliced in a second time.
C2_NoFileTwiceOnChain ==
    \A i, j \in 1..Len(frames) : i < j => Chain[i] # Chain[j]

\* containment by path segments: the root itself or a descendant of it
WithinRoot(p) ==
    Len(templatesAbsDir) <= Len(p) /\ SubSeq(p, 1, Len(templatesAbsDir)) = templatesAbsDir

\* C4: processIncludes reads no file outside the template root.
C4_ReadsStayWithinRoot == \A p \in reads : WithinRoot(p)

DepthBounded == Len(frames) <= Cardinality(DOMAIN fs) + 1

StacksGrow ==
    \A i \in 1..(Len(frames) - 1) :
        /\ frames[i].inclusionStack \subseteq frames[i + 1].inclusionStack
        /\ frames[i].inclusionStack # frames[i + 1].inclusionStack

\* C3: whatever the include graph, processIncludes never rejects, every
\* recursive call runs with an inclusion stack strictly larger than its
\* caller's, the depth stays within the number of files, and the call
\* eventually resolves.
C3_IncludesTerminate ==
    /\ [](incPc # "rejected" /\ DepthBounded /\ StacksGrow)
    /\ <>(incPc = "done")

\* a resolved call whose include graph is the cycle a.html -> sub/b.html ->
\* c.html -> a.html
C3_Witness ==
    /\ incPc = "done"
    /\ {Abs(FileA), Abs(FileB), Abs(FileC)} \subseteq reads

\* C5: every base template that renderTemplate checks for existence or reads
\* lies inside the template root.
C5_BaseStaysWithinRoot == \A p \in baseTouched : WithinRoot(p)

(***************************************************************************)
(* Conditionals and loops as the specification describes them              *)
(***************************************************************************)
\* {{if c0}}B0{{else if c1}}B1...{{else}}E{{endif}} with no conditional inside
IsFlatConditional(c) ==
    /\ Len(c) >= 2
    /\ c[1].k = "if"
    /\ c[Len(c)].k = "endif"
    /\ \A i \in 2..(Len(c) - 1) : c[i].k \in {"text", "elif", "else"}
    /\ \A i \in 2..(Len(c) - 1) : c[i].k = "else" => \A j \in (i + 1)..(Len(c) - 1) : c[j].k = "text"

\* the content of the first branch, from the tag at pos on, whose condition is
\* truthy; the else content or '' when none is
RECURSIVE FirstTruthyBranch(_, _, _)
FirstTruthyBranch(c, pos, variables) ==
    LET next == FirstOf(c, {"elif", "else", "endif"}, pos + 1)
    IN  IF c[pos + 1].k = "endif" THEN <<>>
        ELSE IF c[pos + 1].k = "else" THEN Slice(c, pos + 1, next)
        ELSE IF Truthy(_evaluateExpression(c[pos + 1].e, variables)) THEN Slice(c, pos + 1, next)
        ELSE FirstTruthyBranch(c, next, variables)

\* C1: a conditional without nested conditionals is replaced by the content of
\* the first branch, in the order c0, c1, ..., whose condition is truthy, and
\* by the else content or '' when none is.
C1_FirstTruthyBranchRendered ==
    tplPc = "done" /\ IsFlatConditional(tplContent)
        => tplOutput = FirstTruthyBranch(tplContent, 0, tplVariables @@ userVariables)

\* one {{for x in e}} loop under a safe name
IsSimpleLoop(c) ==
    /\ Len(c) >= 2
    /\ c[1].k = "for"
    /\ c[1].x \notin unsafeKeys
    /\ c[Len(c)].k = "endfor"
    /\ \A i \in 2..(Len(c) - 1) : c[i].k \notin {"for", "forkv", "endfor"}

LoopBodyOf(c) == Slice(c, 1, FirstOf(c, {"empty", "endfor"}, 1))

HasEmptyBranch(c) == FirstOf(c, {"empty"}, 1) # -1

EmptyBranchOf(c) == Slice(c, FirstOf(c, {"empty"}, 1) + 1, Len(c) - 1)

CollectionOf(c, variables) == _evaluateExpression(c[1].e, variables)

\* the processed output of iteration i of the loop c over the entries
IterationOutput(c, entries, i, variables) ==
    processVariables(LoopBodyOf(c), LoopVariables(variables, <<c[1].x>>, entries, i))

WithoutTag(c, kind) == SelectSeq(c, LAMBDA t : t.k # kind)

\* iterations from i on: a break keeps the iteration's output without the
\* marker and ends the loop, a continue drops the iteration's output
RECURSIVE ControlledFrom(_, _, _, _)
ControlledFrom(c, entries, i, variables) ==
    IF i >= Len(entries) THEN <<>>
    ELSE LET out == IterationOutput(c, entries, i, variables)
         IN  IF IncludesTag(out, "break") THEN WithoutTag(out, "break")
             ELSE IF IncludesTag(out, "continue") THEN ControlledFrom(c, entries, i + 1, variables)
             ELSE out \o ControlledFrom(c, entries, i + 1, variables)

\* C6: the iteration with the break marker contributes its output without the
\* marker and ends the loop; an iteration with the continue marker contributes
\* nothing; the iterations before a break keep their output.
C6_BreakKeepsItsIteration ==
    LET variables == tplVariables @@ userVariables
        collection == CollectionOf(tplContent, variables)
    IN  tplPc = "done" /\ IsSimpleLoop(tplContent)
        /\ collection.ty = "array" /\ collection.items # <<>>
            => tplOutput = ControlledFrom(tplContent, collection.items, 0, variables)

\* a body of text and of the loop's own variables
IsPlainBody(body, x) ==
    \A i \in 1..Len(body) :
        \/ body[i].k = "text"
        \/ /\ body[i].k = "expr"
           /\ body[i].e \in {x, x \o <<"_index">>, x \o <<"_isFirst">>, x \o <<"_isLast">>}

\* what the body shows in iteration i of n over element: x is the element,
\* x_index is i, x_isFirst is i = 0, x_isLast is i = n - 1
BodyAt(body, x, element, i, n) ==
    Concat([j \in 1..Len(body) |->
        IF body[j].k = "text" THEN <<body[j]>>
        ELSE IF body[j].e = x THEN _safeToString(element)
        ELSE IF body[j].e = x \o <<"_index">> THEN <<Text(IntStr[i + 1])>>
        ELSE IF body[j].e = x \o <<"_isFirst">> THEN <<Text(IF i = 0 THEN "true" ELSE "false")>>
        ELSE <<Text(IF i = n - 1 THEN "true" ELSE "false")>>])

IsEmptyCollection(v) ==
    \/ v.ty \in {"null", "undefined"}
    \/ v.ty \in {"array", "object"} /\ v.items = <<>>

\* C7: over an array of n >= 1 elements the body is rendered n times in index
\* order with x, x_index, x_isFirst and x_isLast bound; over null, undefined,
\* an empty array or an empty object the output is the processed empty branch,
\* or '' without one.
C7_LoopRendersEveryElement ==
    LET variables == tplVariables @@ userVariables
        collection == CollectionOf(tplContent, variables)
        body == LoopBodyOf(tplContent)
        n == Len(collection.items)
    IN  tplPc = "done" /\ IsSimpleLoop(tplContent) /\ IsPlainBody(body, tplContent[1].x)
            => /\ collection.ty = "array" /\ n >= 1
                   => tplOutput = Concat([i \in 1..n |->
                          BodyAt(body, tplContent[1].x, collection.items[i].val, i - 1, n)])
               /\ IsEmptyCollection(collection)
                   => tplOutput = IF HasEmptyBranch(tplContent)
                                  THEN processVariables(EmptyBranchOf(tplContent), variables)
                                  ELSE <<>>

\* {{for p in [1,2]}}{{p_index}}{{endfor}} has given 01
C7_Witness ==
    /\ tplPc = "done"
    /\ tplContent = <<For(<<"p">>, <<"[1,2]">>), Expr(<<"p", "_index">>), EndFor>>
    /\ tplOutput = <<Text("0"), Text("1")>>

\* a `[!` or a `[~` in the text
HasMarkerStart(html) ==
    \E i \in 0..(Len(html) - 1) :
        StartsWithAt(html, <<"[", "!">>, i) \/ StartsWithAt(html, <<"[", "~">>, i)

\* C11: the output of _renderTemplateContent holds no `[!` and no `[~`, and
\* _cleanTemplateTags applied to it again returns it unchanged.
C11_OutputFreeOfMarkers ==
    composePc = "done" /\ finalHtml # Thrown
        => ~HasMarkerStart(finalHtml) /\ _cleanTemplateTags(finalHtml) = finalHtml

\* C12: under every context, with or without an entry of that name, a tag
\* {{name}} of an unsafe name renders as the empty string or stays verbatim.
C12_UnsafeNameNeverReplaced ==
    tplPc = "done" /\ tplContent \in UnsafeNameTemplates
        => \/ tplOutput = <<Text("a"), Text("b")>>
           \/ tplOutput = <<Text("a"), Expr(tplContent[2].e), Text("b")>>
           \/ tplOutput = tplContent

\* C13: an expression that references process or require, directly or
\* through an object in scope, evaluates to null and never reaches the host's
\* process.
C13_ProcessAndRequireGiveNull ==
    evalPc = "done" /\ evalExpr \in ProcessExpressions => evalResult = Null

\* a tag is left in the text
HasDynamicTag(c) == \E i \in 1..Len(c) : c[i].k # "text"

\* the text after the first k phases of a pass, in the order loops,
\* conditionals, user-function calls, substitution
AfterPhases(k, c, variables) ==
    LET one == _processLoops(c, variables)
        two == _processConditionals(one, variables)
        three == _processUserFunctions(two, variables)
    IN  CASE k = 0 -> c
          [] k = 1 -> one
          [] k = 2 -> two
          [] k = 3 -> three
          [] k = 4 -> _processVariablesAndExpressions(three, variables)

PassInOrder ==
    tplPc \in {"pass", "done"}
        => passResult = AfterPhases(phase, passPrevious, tplVariables @@ userVariables)

NoEleventhPass ==
    /\ tplPc = "pass" => passCount < 10
    /\ tplPc = "done" => passCount <= 10

ReturnsLastPass ==
    tplPc = "done"
        => /\ tplOutput = passResult
           /\ passResult = passPrevious \/ ~HasDynamicTag(passResult) \/ passCount = 10

RunawayStopsAtTen ==
    tplPc = "done" /\ passResult # passPrevious /\ HasDynamicTag(passResult)
        => passCount = 10 /\ warned

AnotherPassOnlyWhenUnsettled ==
    passCount' = passCount + 1 /\ tplPc' = "pass"
        => passResult # passPrevious /\ HasDynamicTag(passResult) /\ passCount + 1 < 10

\* C14: every pass applies the four phases in the order loops, conditionals,
\* user-function calls, substitution; the passes stop after the first one
\* whose output equals its input, or leaves no tag, or is the 10th; there is
\* no 11th pass; the call returns the text of the last pass; a template that
\* brings new tags in every pass is returned after exactly 10 passes with the
\* warning.
C14_PassesBoundedAndOrdered ==
    /\ [](PassInOrder /\ NoEleventhPass /\ ReturnsLastPass /\ RunawayStopsAtTen)
    /\ [][AnotherPassOnlyWhenUnsettled]_vars
    /\ <>(tplPc = "done")

\* {{again}}, whose value x{{again}} brings the tag back, returned after the
\* 10th pass with the warning
C14_Witness ==
    /\ tplPc = "done"
    /\ tplContent = <<Expr(<<"again">>)>>
    /\ passCount = 10
    /\ warned
    /\ HasDynamicTag(tplOutput)

(***************************************************************************)
(* The validation as the specification describes it: every defect is       *)
(* recorded and the scan goes on to the end of the text; behind a tag that *)
(* lacks its bracket it goes on with the next character.                   *)
(***************************************************************************)
RECURSIVE DefectsFrom(_, _, _, _, _)
DefectsFrom(c, i, lineBefore, stack, errors) ==
    IF ~(i < Len(c)) THEN errors \o Unclosed(stack)
    ELSE
    LET line == IF c[i + 1] = "\n" THEN lineBefore + 1 ELSE lineBefore
        isOpen == StartsWithAt(c, <<"[", "!">>, i)
        isClose == StartsWithAt(c, <<"[", "~">>, i)
        tag == parseTag(c, i, IF isOpen THEN "open" ELSE "close", line)
    IN  IF ~isOpen /\ ~isClose THEN DefectsFrom(c, i + 1, line, stack, errors)
        ELSE IF tag.B THEN DefectsFrom(c, i + 1, line, stack, errors \o tag.errors)
        ELSE IF tag.C THEN DefectsFrom(c, tag.endIndex + 1, line, stack, errors \o tag.errors)
        ELSE IF isOpen
        THEN DefectsFrom(c, tag.endIndex + 1, line, Append(stack, [name |-> tag.name, line |-> line]), errors)
        ELSE IF Len(stack) = 0
        THEN DefectsFrom(c, tag.endIndex + 1, line, stack,
                         Append(errors, ValidationError("extraClose", "close", line, tag.name, <<>>)))
        ELSE IF stack[Len(stack)].name = tag.name
        THEN DefectsFrom(c, tag.endIndex + 1, line, SubSeq(stack, 1, Len(stack) - 1), errors)
        ELSE DefectsFrom(c, tag.endIndex + 1, line, stack,
                         Append(errors, ValidationError("mismatch", "close", line, tag.name,
                                                        stack[Len(stack)].name)))

EveryDefect(c) == DefectsFrom(c, 0, 1, <<>>, <<>>)

\* C15: the errors returned are the defects of the whole text, one for each
\* mismatching close tag, each close tag met with an empty stack, each
\* malformed tag and each open tag left on the stack: no defect ends the scan.
C15_EveryDefectReported ==
    valPc = "done" => valErrors = EveryDefect(valContent)

\* what a properly nested evaluation gives: a level contributes the branch
\* its own condition selects, with the inner conditional evaluated in place
RECURSIVE NestedResult(_, _)
NestedResult(n, d) ==
    IF n = <<>> THEN <<>>
    ELSE LET h == Head(n)
             inner == NestedResult(Tail(n), d + 1)
         IN  IF h.c = <<"t">>
             THEN <<NestText("T", d)>> \o (IF h.inElse THEN <<>> ELSE inner) \o <<NestText("U", d)>>
             ELSE IF h.else
             THEN <<NestText("E", d)>> \o (IF h.inElse THEN inner ELSE <<>>) \o <<NestText("F", d)>>
             ELSE <<>>

\* C16: for conditionals nested to depth d, the output is the properly nested
\* result: inner text appears iff its own and every enclosing condition select
\* it, text behind an inner {{endif}} follows the outer condition only, and no
\* tag of the conditionals is left.
C16_NestedConditionalsResolved ==
    tplPc = "done" =>
        \A n \in Nestings : tplContent = RenderNest(n, 1) => tplOutput = NestedResult(n, 1)

\* a whole marker [!name] or [~name] is in the document
MarkerInDocument(d) ==
    \E i \in 1..(Len(d) - 3) :
        d[i] = Text("[") /\ d[i + 1] \in {Text("!"), Text("~")} /\ d[i + 3] = Text("]")

MarkerInText(t) ==
    \E i \in 1..(Len(t) - 3) : t[i] = "[" /\ t[i + 1] \in {"!", "~"} /\ t[i + 3] = "]"

\* the files the include stage of the running render reads
FilesIncluded ==
    processIncludes(siteDisk, renderTemplate(siteDisk, siteTemplate).text, siteTemplate, {}).files

Occurs(s, t) == IndexOf(s, t, 0) # -1

\* C18: a {{...}} tag of the base, and a tag in a child block content that is
\* inserted, is in the output of the composition unchanged, whatever
\* characters it has.
C18_TagsUntouched ==
    composePc = "done" /\ finalHtml # Thrown =>
        \A T \in TagTexts :
            /\ Occurs(baseContent, T) => Occurs(finalHtml, T)
            /\ \A r \in Replacements(_findBlockPositions(baseContent).blocks,
                                     _findBlockPositions(templateContent).blocks) :
                  Occurs(r.innerContent, T) => Occurs(finalHtml, T)

\* a step of a call of processIncludes
IsIncludeStep == frames' # frames \/ incPc' # incPc

\* the step in which readFile resolved: the recursive call for the file starts
ReadSucceeds == frames # <<>> /\ Len(frames') = Len(frames) + 1

\* C19: the registry is the set of the root-relative paths of the files read
\* while the flag was true since the last setCompilationMode(true):
\* setCompilationMode(true) empties it, setCompilationMode(false) leaves it,
\* a read under the flag adds its path, and nothing else changes it.
C19_RegistryFollowsMode ==
    [][ /\ ~IsIncludeStep /\ isCompilationMode' => includedFiles' = {}
        /\ ~IsIncludeStep /\ ~isCompilationMode' => includedFiles' = includedFiles
        /\ IsIncludeStep => isCompilationMode' = isCompilationMode
        /\ IsIncludeStep /\ ReadSucceeds /\ isCompilationMode =>
              includedFiles' = includedFiles \cup {frames'[Len(frames')].currentFile}
        /\ IsIncludeStep /\ ~(ReadSucceeds /\ isCompilationMode) =>
              includedFiles' = includedFiles ]_vars

\* files were recorded under the flag, the flag was put back, and a call made
\* after that has returned without adding to the registry
C19_Witness ==
    /\ ~isCompilationMode
    /\ includedFiles = {FileB}
    /\ incPc = "done"
    /\ FileC \in {PathRelative(templatesAbsDir, p) : p \in reads}

\* the templates some compiled template included, directly or through
\* another included file
IncludedBySome ==
    UNION { processIncludes(siteDisk, renderTemplate(siteDisk, cachedPages[i]).text,
                            cachedPages[i], {}).files : i \in 1..Len(cachedPages) }

\* C20: when compileAllTemplates has completed, no template that a compiled
\* template included has an output file in dist, in whatever order the
\* templates were compiled.
C20_NoIncludedTemplateInDist ==
    sitePc = "compiled" => dist \cap IncludedBySome = {}


\* what one token gives when only registered functions can be called
RegisteredCall(t) ==
    IF t.k # "user" THEN <<t>>
    ELSE IF t.x \in DOMAIN userFunctions /\ ~userFunctions[t.x].throws
    THEN _safeToString(userFunctions[t.x].returns)
    ELSE <<>>

\* C21: a {{user: name()}} call invokes a function only when name is a key
\* loadUserFeatures registered; for every other name (never registered,
\* unsafe, or inherited by the registry object) no function is invoked and
\* the call renders as the empty string, as does a registered function that
\* throws; the rest of the document is kept.
C21_OnlyRegisteredFunctionsInvoked ==
    (tplPc = "done" /\ tplContent \in CallTemplates) =>
        /\ UserFunctionsInvoked(tplContent) \subseteq DOMAIN userFunctions
        /\ tplOutput = Concat([i \in 1..Len(tplContent) |-> RegisteredCall(tplContent[i])])

\* C22: a processVariables call leaves userFeatures.variables and
\* userFeatures.functions, nested objects and arrays included, and the
\* caller's requestVariables unchanged, so that rendering the same template
\* twice with the same inputs builds the same variable context both times.
C22_RenderingOnlyReadsRegistry ==
    contexts # <<>> =>
        /\ userFeatures = LoadedFeatures
        /\ callerVariables = [k \in DOMAIN callerVariables |-> contexts[1][k]]
        /\ \A i \in 1..Len(contexts) : contexts[i] = contexts[1]

\* the controlling expression of the construct: the condition of the {{if}},
\* of the {{else if}} that is reached, or the collection of the {{for}}
ControlFails(construct) ==
    \E i \in 1..Len(construct) :
        construct[i].k \in {"if", "elif", "for"} /\ construct[i].e \in FailingExprs

\* C23: when evaluating the controlling expression of a construct fails, the
\* whole construct renders as the empty string (no if-, else- or
\* {{empty}}-branch content), and the text outside it is rendered as if the
\* construct were absent.
C23_FailedControlRendersEmpty ==
    \A s \in Surrounded :
        (featTemplate = s.before \o s.construct \o s.after /\ ControlFails(s.construct)) =>
            \A i \in 1..Len(featOutputs) :
                featOutputs[i] = processVariables(s.before \o s.after, contexts[i])

\* p is d or lies below d
Below(p, d) == Len(p) >= Len(d) /\ SubSeq(p, 1, Len(d)) = d

Dropped(currentFile, inclusionStack, fileName) ==
    LET includePath == IncludePath(currentFile, fileName)
    IN  \/ ~_isSafePath(includePath, templatesAbsDir)
        \/ includePath \in inclusionStack
        \/ PathRelative(templatesAbsDir, includePath) = currentFile
        \/ includePath \notin DOMAIN fs

\* the text read from the first to the last atom, every unquoted directive
\* replaced where it stands
RECURSIVE ExpandFrom(_, _, _, _)
ExpandFrom(c, i, currentFile, inclusionStack) ==
    IF i > Len(c) THEN <<>>
    ELSE IF c[i].k = "quote" /\ i + 2 <= Len(c) /\ c[i + 1].k = "include" /\ c[i + 2].k = "quote"
    THEN SubSeq(c, i, i + 2) \o ExpandFrom(c, i + 3, currentFile, inclusionStack)
    ELSE IF c[i].k = "include"
    THEN LET includePath == IncludePath(currentFile, c[i].path)
         IN  (IF Dropped(currentFile, inclusionStack, c[i].path) THEN <<>>
              ELSE ExpandFrom(fs[includePath], 1, PathRelative(templatesAbsDir, includePath),
                              inclusionStack \cup {includePath}))
             \o ExpandFrom(c, i + 1, currentFile, inclusionStack)
    ELSE <<c[i]>> \o ExpandFrom(c, i + 1, currentFile, inclusionStack)

NameOf(t) == IF t.k = "path" THEN t.x \o <<".">> \o t.y ELSE t.e

\* every {{k}} of a key of the context replaced by the string of its value
LiteralSubstitution(c, variables) ==
    Concat([i \in 1..Len(c) |->
               IF c[i].k \in {"expr", "path"} /\ NameOf(c[i]) \in DOMAIN variables \ unsafeKeys
               THEN _safeToString(variables[NameOf(c[i])])
               ELSE <<c[i]>>])

\* C26: for every context key k that is not unsafe and every value whose
\* string form holds no `{{`, each occurrence of {{k}} is replaced by exactly
\* the string form of the value, whatever characters the value and the key
\* contain ($ followed by &, $, a digit, a backtick or a quote; regex
\* metacharacters).
C26_BareNamesReplacedLiterally ==
    (tplPc = "done" /\ tplContent \in BareTemplates /\ tplVariables \in BareContexts) =>
        tplOutput = LiteralSubstitution(tplContent, tplVariables @@ userVariables)

\* C27: with hot reload on, every change, addition or deletion of a watched
\* file whose path is not in the ignore list makes the server emit a
\* hot-reload event (a deleted template leaves the page list), an event for
\* a path in the list emits nothing, and handling an event never throws.
C27_FileEventsReloadClients ==
    /\ ~handlerThrew
    /\ Len(emitted) = Cardinality({i \in 1..Len(handled) : ~handled[i].ignored})
    /\ \A i \in 1..Len(handled) :
          (handled[i].event = "unlink" /\ handled[i].filePath[1] = "templates" /\ ~handled[i].ignored) =>
              \A j \in 1..Len(cachedPages) : cachedPages[j] # TemplateName(handled[i].filePath)

\* C28: every request that reaches the page middleware is eventually
\* completed: redirected, answered with the page, passed to the next handler
\* or, when rendering throws, answered with an error response.
C28_EveryRequestCompleted == <>(response # "none")

\* C29: a processVariables call that runs while a loadUserFeatures reload is
\* in progress reads either the complete registry as it was before the
\* reload or the complete registry as it is after it, never an empty or
\* partly loaded one.
C29_ReloadIsAtomicForRenders ==
    \A i \in 1..Len(registryReads) :
        registryReads[i].reloading =>
            registryReads[i].registry \in {registryReads[i].before, registryReads[i].after}

\* C30: if any available template fails structure validation,
\* compileAllTemplates stops before touching the output (dist is neither
\* deleted nor written to, no template is compiled) and the compilation-mode
\* flag is false again when it resolves; in every outcome, success or caught
\* error, the flag is false after compileAllTemplates resolves.
C30_InvalidTemplateStopsBuild ==
    [][/\ (sitePc = "start" /\ SomeTemplateInvalid) =>
            /\ sitePc' = "failed"
            /\ dist' = dist
            /\ siteRendered' = siteRendered /\ siteDocument' = siteDocument /\ stagesRun' = stagesRun
       /\ sitePc' \in {"failed", "compiled"} => ~isCompilationMode']_vars

\* a build has stopped at an invalid template and the output of the earlier
\* build is still there
C30_Witness == sitePc = "failed" /\ dist = {SiteIndex, <<"old.html">>} /\ ~isCompilationMode
====
